---- MODULE Spec2Model ----
(***************************************************************************)
(* State machine of the graph dashboard client (Frontend/app.js): the      *)
(* renderer-facing node/edge datasets, the highlight sets, the selection,  *)
(* the tier filter and the asynchronous query/traversal requests.          *)
(*                                                                         *)
(* Strings that the code inspects character by character (labels, the     *)
(* path string) are sequences of character codes: 1..26 = a..z,            *)
(* 27..52 = A..Z, 53 = '.', 60 = the " -> " separator of a path string.    *)
(* Node ids are TLA+ strings; IdChars gives their characters.  Sizes are   *)
(* in half-units (12 + 1.5*k is 24 + 3*k).  A JavaScript value that may be *)
(* undefined is an option: <<>> for undefined, <<v>> for v.                *)
(***************************************************************************)
EXTENDS Integers, Sequences, FiniteSets, TLC

VARIABLES
    loadPhase,          \* "fetching" until loadGraphData's fetch settles
    nodesDataset,       \* None (null) or Some(id -> renderer node)
    edgesDataset,       \* None (null) or Some(edge id -> renderer edge)
    highlightedNodes,   \* Set of node ids (may hold NULL, see showTraversal)
    highlightedEdges,   \* Set of edge ids
    selectedNodeId,     \* node id or NULL
    enabledTiers,       \* the checked tier checkboxes
    uuidCount,          \* ids generated so far by the DataSet for id-less items
    pendingQueries,     \* number of POST /api/query requests in flight
    pendingTraversals,  \* the POST /api/graph/traverse requests in flight
    requestsIssued,     \* number of query/traversal requests issued so far
    filterChanges,      \* number of tier checkbox changes so far
    last,               \* history: the last handler that touched highlights/datasets
    toasts,             \* the notifications shown by the latest step (showToast)
    searchInput,        \* the value of the #node-search box
    timers,             \* the pending setTimeout timers of the debounced search
    timeoutHandle,      \* debounce's `timeout`: None or Some(timer id)
    timersCreated,      \* number of timers created so far (= input events)
    searchPending,      \* the POST /api/graph/search requests in flight
    searchCalls,        \* number of search requests issued so far
    searchResults,      \* what #search-results shows, and for which request
    invocations,        \* history: number of searchNodes invocations so far
    cancelled,          \* history: number of timers cancelled by clearTimeout
    loading,            \* TRUE while #graph-loading is shown (has no class 'hidden')
    stabilization,      \* "none", or the renderer's layout: "running", "done"
    autoFits,           \* history: fits of the whole view requested by no user action
    queriesInFlight,    \* the POST /api/query requests in flight, by order of issue
    displayedQuery,     \* history: the request whose response was applied last (0: none)
    queryInput,         \* the value of the #query-input box
    pressed,            \* history: presses of btn-execute-query and of a traversal button
    running,            \* "idle", or the handler that is between its clearHighlights()
                        \* call and its end
    fitTimers,          \* the pending setTimeout timers of the deferred view fits
    fitCount,           \* number of deferred view fits requested so far
    fitted,             \* history: the deferred fit performed last
    networkSelection,   \* the node selected in the renderer (network.getSelectedNodes), or NULL
    hovered,            \* the node under the pointer, or NULL
    popup,              \* #network-popup: style.display = 'block', style.opacity, content
    hideTimers          \* number of pending setTimeout timers of hideNodePopup

graphVars == <<loadPhase, nodesDataset, edgesDataset, highlightedNodes,
               highlightedEdges, selectedNodeId, enabledTiers, uuidCount,
               pendingQueries, pendingTraversals, requestsIssued, filterChanges, last>>

searchVars == <<searchInput, timers, timeoutHandle, timersCreated, searchPending,
                searchCalls, searchResults, invocations, cancelled>>

rendererVars == <<loading, stabilization, autoFits>>

queryVars == <<queriesInFlight, displayedQuery, queryInput, pressed>>

fitVars == <<fitTimers, fitCount, fitted>>

selectionVars == <<networkSelection>>

popupVars == <<hovered, popup, hideTimers>>

uiVars == <<fitVars, selectionVars, popupVars>>

vars == <<graphVars, toasts, searchVars, rendererVars, queryVars, running, uiVars>>

-----------------------------------------------------------------------------
(* Bounds of the model *)

MaxList == 1        \* longest upstream/downstream/traversal node list
MaxPending == 1     \* requests in flight at the same time
MaxUuid == 2        \* ids the DataSet may generate in one run
MaxRequests == 2    \* query/traversal requests issued in one run
MaxFilterChanges == 1   \* tier checkbox changes in one run
MaxInputs == 3      \* input events on the search box in one run
MaxConcurrent == 2  \* queries in flight at the same time, where queries overlap
MaxHideTimers == 2  \* pending timers of hideNodePopup
MaxPresses == 3     \* presses of the query and traversal buttons in one run

-----------------------------------------------------------------------------
(* Values *)

NULL == "null"
Undef == "undefined"
None == <<>>
Some(x) == <<x>>
Val(o) == o[1]

HIGHLIGHT_COLOR == "#fbbf24"
EDGE_COLOR == "#30363d"
FONT_COLOR == "#e4e6eb"

TIER_COLORS(t) ==
    CASE t = 0 -> "#9333ea"
      [] t = 1 -> "#22c55e"
      [] t = 2 -> "#3b82f6"
      [] t = 3 -> "#f59e0b"
      [] t = 4 -> "#ef4444"
      [] t = 5 -> "#ec4899"
      [] t = -1 -> "#06b6d4"
      [] OTHER -> Undef

\* Characters
SEP == <<60>>
Dots == <<53, 53, 53>>
ToLowerChar(c) == IF c \in 27..52 THEN c - 26 ELSE c
toLowerCase(s) == [i \in 1..Len(s) |-> ToLowerChar(s[i])]

\* The label of an item that has no label field (undefined)
NoLabel == <<0>>

\* Node ids of the backend graph and their characters
NodeIds == {"A", "B", "C"}
IdChars(id) ==
    CASE id = "A" -> <<27>>
      [] id = "B" -> <<28>>
      [] id = "C" -> <<29>>
      [] id = "ab" -> <<1, 2>>
      [] OTHER -> <<>>

\* Ids the DataSet generates for items added without an id (uuid4)
UuidNames == <<"uuid-1", "uuid-2", "uuid-3", "uuid-4", "uuid-5", "uuid-6">>

\* Node records as the backend sends them
LongLabel == [i \in 1..21 |-> 3]
recA == [id |-> "A", label |-> <<27, 2>>, tier |-> Some(1), type |-> "FIELD"]
recB == [id |-> "B", label |-> <<3, 4>>, tier |-> Some(3), type |-> "FIELD"]
recC == [id |-> "C", label |-> LongLabel, tier |-> None, type |-> "CONCEPT"]
\* a partial record of node A, as a traversal may carry it
recA2 == [id |-> "A", label |-> NoLabel, tier |-> Some(2), type |-> "FIELD"]
Catalog == {recA, recB, recC, recA2}

\* {} in "node.data || {}"
EmptyObject == [id |-> Undef, label |-> NoLabel, tier |-> None, type |-> Undef]

-----------------------------------------------------------------------------
(* Pure helpers of app.js *)

getNodeColor(node) ==
    LET tier == IF node.tier # None THEN Val(node.tier) ELSE -1
        c == TIER_COLORS(tier)
    IN  IF c # Undef THEN c ELSE TIER_COLORS(-1)

Max(a, b) == IF a >= b THEN a ELSE b

getNodeSize(node) ==
    IF node.type = "CONCEPT" THEN 36
    ELSE LET tier == IF node.tier # None THEN Val(node.tier) ELSE 1
         IN  24 + Max(0, 4 - tier) * 3

MaxLabelLength == 20

truncateLabel(label, maxLength) ==
    IF label = NoLabel \/ label = <<>> THEN Dots
    ELSE IF Len(label) <= maxLength THEN label
    ELSE SubSeq(label, 1, maxLength) \o Dots

\* node.label || node.id
LabelOrId(node) ==
    IF node.label # NoLabel /\ node.label # <<>> THEN node.label ELSE IdChars(node.id)

NormalFont == [size |-> 10, color |-> FONT_COLOR]
HighlightFont == [size |-> 14, color |-> "#000"]

-----------------------------------------------------------------------------
(* vis.DataSet items *)

\* An item none of whose fields has been set
BlankNode ==
    [label |-> NoLabel, color |-> Undef, size |-> 0, font |-> NormalFont,
     hidden |-> None, tier |-> None, type |-> Undef, originalColor |-> Undef,
     data |-> None]

BaseEdgeColor == [color |-> EDGE_COLOR, highlight |-> HIGHLIGHT_COLOR, opacity |-> 6]
ResetEdgeColor == [color |-> EDGE_COLOR, highlight |-> Undef, opacity |-> 6]
HighlightEdgeColor == [color |-> HIGHLIGHT_COLOR, highlight |-> Undef, opacity |-> 10]

\* options.edges.color.highlight: the renderer's colour for a selected edge
\* whose own colour object names none
GlobalEdgeHighlight == "#fbbf24"

\* How the renderer draws an edge item
EdgeVisual(edge) ==
    [color |-> edge.color.color,
     highlight |-> IF edge.color.highlight = Undef THEN GlobalEdgeHighlight
                   ELSE edge.color.highlight,
     opacity |-> edge.color.opacity,
     width |-> edge.width]

BulkEdgeId(idx) == <<"edge", idx>>
DynEdgeId(source, target) == <<"dynamic-edge", source, target>>

\* The working state of a handler: datasets, highlight sets, generated ids
State(nd, ed, hn, he, uu) == [nd |-> nd, ed |-> ed, hn |-> hn, he |-> he, uu |-> uu]

\* nodesDataset.update({id, color, size, font}): DataSet.update changes the
\* item with that id, and adds the item when no item has the id; an item
\* added without an id (null) gets a generated one.
DataSetUpdateNode(st, id, color, size, font) ==
    LET nd == Val(st.nd)
    IN  IF id # NULL /\ id \in DOMAIN nd
        THEN [st EXCEPT !.nd = Some([nd EXCEPT ![id] =
                 [nd[id] EXCEPT !.color = color, !.size = size, !.font = font]])]
        ELSE LET newId == IF id = NULL THEN UuidNames[st.uu + 1] ELSE id
                 item == [BlankNode EXCEPT !.color = color, !.size = size, !.font = font]
             IN  [st EXCEPT !.nd = Some(nd @@ (newId :> item)),
                            !.uu = IF id = NULL THEN st.uu + 1 ELSE st.uu]

-----------------------------------------------------------------------------
(* Highlight engine *)

highlightNode(st, nodeId, isHighlighted) ==
    IF isHighlighted
    THEN LET s1 == [st EXCEPT !.hn = st.hn \cup {nodeId}]
         IN  IF st.nd = None THEN s1
             ELSE DataSetUpdateNode(s1, nodeId, HIGHLIGHT_COLOR, 50, HighlightFont)
    ELSE LET s1 == [st EXCEPT !.hn = st.hn \ {nodeId}]
         IN  IF st.nd = None THEN s1
             ELSE LET nd == Val(st.nd)
                      \* get(null) returns the array of all items, which is
                      \* truthy and has no originalColor and no data
                      found == nodeId = NULL \/ nodeId \in DOMAIN nd
                      node == IF nodeId = NULL THEN BlankNode ELSE nd[nodeId]
                      data == IF node.data = None THEN EmptyObject ELSE Val(node.data)
                  IN  IF found
                      THEN DataSetUpdateNode(s1, nodeId, node.originalColor,
                                             getNodeSize(data), NormalFont)
                      ELSE s1

\* as addNodeToGraph, giving an added node its tier size even when highlighted
addNodeToGraph_TierSize(st, nodeData, highlight) ==
    IF st.nd = None \/ nodeData.id \in DOMAIN Val(st.nd) THEN st
    ELSE LET newNode ==
                 [label |-> truncateLabel(LabelOrId(nodeData), MaxLabelLength),
                  color |-> IF highlight THEN HIGHLIGHT_COLOR ELSE getNodeColor(nodeData),
                  size |-> getNodeSize(nodeData),
                  font |-> IF highlight THEN HighlightFont ELSE NormalFont,
                  hidden |-> None,
                  tier |-> nodeData.tier,
                  type |-> nodeData.type,
                  originalColor |-> getNodeColor(nodeData),
                  data |-> Some(nodeData)]
         IN  [st EXCEPT !.nd = Some(Val(st.nd) @@ (nodeData.id :> newNode)),
                        !.hn = IF highlight THEN st.hn \cup {nodeData.id} ELSE st.hn]

\* as addNodeToGraph, guarding the dataset with ?. instead of returning: on
\* a null dataset nothing is added but the id is still recorded as highlighted
addNodeToGraph_NoReturn(st, nodeData, highlight) ==
    IF st.nd = None
    THEN [st EXCEPT !.hn = IF highlight THEN st.hn \cup {nodeData.id} ELSE st.hn]
    ELSE IF nodeData.id \in DOMAIN Val(st.nd) THEN st
    ELSE LET newNode ==
                 [label |-> truncateLabel(LabelOrId(nodeData), MaxLabelLength),
                  color |-> IF highlight THEN HIGHLIGHT_COLOR ELSE getNodeColor(nodeData),
                  size |-> IF highlight THEN 50 ELSE getNodeSize(nodeData),
                  font |-> IF highlight THEN HighlightFont ELSE NormalFont,
                  hidden |-> None,
                  tier |-> nodeData.tier,
                  type |-> nodeData.type,
                  originalColor |-> getNodeColor(nodeData),
                  data |-> Some(nodeData)]
         IN  [st EXCEPT !.nd = Some(Val(st.nd) @@ (nodeData.id :> newNode)),
                        !.hn = IF highlight THEN st.hn \cup {nodeData.id} ELSE st.hn]

\* as addNodeToGraph, replacing the dataset's content by the new node
addNodeToGraph_Replaces(st, nodeData, highlight) ==
    IF st.nd = None \/ nodeData.id \in DOMAIN Val(st.nd) THEN st
    ELSE LET newNode ==
                 [label |-> truncateLabel(LabelOrId(nodeData), MaxLabelLength),
                  color |-> IF highlight THEN HIGHLIGHT_COLOR ELSE getNodeColor(nodeData),
                  size |-> IF highlight THEN 50 ELSE getNodeSize(nodeData),
                  font |-> IF highlight THEN HighlightFont ELSE NormalFont,
                  hidden |-> None,
                  tier |-> nodeData.tier,
                  type |-> nodeData.type,
                  originalColor |-> getNodeColor(nodeData),
                  data |-> Some(nodeData)]
         IN  [st EXCEPT !.nd = Some(nodeData.id :> newNode),
                        !.hn = IF highlight THEN st.hn \cup {nodeData.id} ELSE st.hn]

addNodeToGraph(st, nodeData, highlight) ==
    IF st.nd = None \/ nodeData.id \in DOMAIN Val(st.nd) THEN st
    ELSE LET newNode ==
                 [label |-> truncateLabel(LabelOrId(nodeData), MaxLabelLength),
                  color |-> IF highlight THEN HIGHLIGHT_COLOR ELSE getNodeColor(nodeData),
                  size |-> IF highlight THEN 50 ELSE getNodeSize(nodeData),
                  font |-> IF highlight THEN HighlightFont ELSE NormalFont,
                  hidden |-> None,
                  tier |-> nodeData.tier,
                  type |-> nodeData.type,
                  originalColor |-> getNodeColor(nodeData),
                  data |-> Some(nodeData)]
         IN  [st EXCEPT !.nd = Some(Val(st.nd) @@ (nodeData.id :> newNode)),
                        !.hn = IF highlight THEN st.hn \cup {nodeData.id} ELSE st.hn]

RECURSIVE UnhighlightEach(_, _)
UnhighlightEach(st, ids) ==
    IF ids = {} THEN st
    ELSE LET n == CHOOSE x \in ids : TRUE
         IN  UnhighlightEach(highlightNode(st, n, FALSE), ids \ {n})

\* as clearHighlights, resetting the colour of the edges but not their width
clearHighlights_KeepsWidth(st) ==
    LET s1 == UnhighlightEach(st, st.hn)
        s2 == [s1 EXCEPT !.hn = {}]
        s3 == IF s2.ed = None THEN s2
              ELSE LET ed == Val(s2.ed)
                   IN  [s2 EXCEPT !.ed = Some([e \in DOMAIN ed |->
                           IF e \in s2.he
                           THEN [ed[e] EXCEPT !.color = ResetEdgeColor]
                           ELSE ed[e]])]
    IN  [s3 EXCEPT !.he = {}]

\* clearHighlights raises a TypeError when it calls highlightNode, whose
\* nodesDataset.update and nodesDataset.get are unguarded, on a null dataset
clearHighlightsRaises(st) == st.hn # {} /\ st.nd = None

clearHighlights(st) ==
    LET s1 == UnhighlightEach(st, st.hn)
        s2 == [s1 EXCEPT !.hn = {}]
        s3 == IF s2.ed = None THEN s2
              ELSE LET ed == Val(s2.ed)
                   IN  [s2 EXCEPT !.ed = Some([e \in DOMAIN ed |->
                           IF e \in s2.he
                           THEN [ed[e] EXCEPT !.color = ResetEdgeColor, !.width = 1]
                           ELSE ed[e]])]
    IN  [s3 EXCEPT !.he = {}]

-----------------------------------------------------------------------------
(* Query result reconciliation *)

\* A query result: context_debug.target_node (option), upstream_nodes,
\* downstream_nodes, and the value of the source of type 'path' (option)
QueryResult(target, upstream, downstream, path) ==
    [target |-> target, upstream |-> upstream, downstream |-> downstream, path |-> path]

\* as nodesToHighlight, forgetting the downstream nodes
nodesToHighlight_NoDownstream(result) ==
    (IF result.target # None THEN <<Val(result.target)>> ELSE <<>>) \o result.upstream

nodesToHighlight(result) ==
    (IF result.target # None THEN <<Val(result.target)>> ELSE <<>>)
        \o result.upstream \o result.downstream

\* nodesToHighlight.map(n => n?.id).filter(Boolean)
highlightedIds(result) ==
    {nodesToHighlight(result)[i].id : i \in 1..Len(nodesToHighlight(result))} \ {""}

\* as HighlightOrAdd, writing the response's record over an existing node
RECURSIVE HighlightOrAdd_Overwrite(_, _, _)
HighlightOrAdd_Overwrite(st, list, checkId) ==
    IF list = <<>> THEN st
    ELSE LET node == Head(list)
             s1 == IF checkId /\ node.id = "" THEN st
                   ELSE IF st.nd # None /\ node.id \in DOMAIN Val(st.nd)
                        THEN LET nd == Val(st.nd)
                                 s0 == highlightNode(st, node.id, TRUE)
                             IN  [s0 EXCEPT !.nd = Some([Val(s0.nd) EXCEPT ![node.id] =
                                     [Val(s0.nd)[node.id] EXCEPT
                                         !.label = truncateLabel(LabelOrId(node), MaxLabelLength),
                                         !.tier = node.tier, !.type = node.type,
                                         !.originalColor = getNodeColor(node),
                                         !.data = Some(node)]])]
                        ELSE addNodeToGraph(st, node, TRUE)
         IN  HighlightOrAdd_Overwrite(s1, Tail(list), checkId)

RECURSIVE HighlightOrAdd(_, _, _)
HighlightOrAdd(st, list, checkId) ==
    IF list = <<>> THEN st
    ELSE LET node == Head(list)
             s1 == IF checkId /\ node.id = "" THEN st
                   ELSE IF st.nd # None /\ node.id \in DOMAIN Val(st.nd)
                        THEN highlightNode(st, node.id, TRUE)
                        ELSE addNodeToGraph(st, node, TRUE)
         IN  HighlightOrAdd(s1, Tail(list), checkId)

\* as HighlightEdgesBetween, recolouring the edges without recording them
HighlightEdgesBetween_NotRecorded(st, ids) ==
    IF st.ed = None THEN st
    ELSE LET ed == Val(st.ed)
             hit == {e \in DOMAIN ed : ed[e].from \in ids /\ ed[e].to \in ids}
         IN  [st EXCEPT !.ed = Some([e \in DOMAIN ed |->
                                IF e \in hit
                                THEN [ed[e] EXCEPT !.color = HighlightEdgeColor, !.width = 3]
                                ELSE ed[e]])]

HighlightEdgesBetween(st, ids) ==
    IF st.ed = None THEN st
    ELSE LET ed == Val(st.ed)
             hit == {e \in DOMAIN ed : ed[e].from \in ids /\ ed[e].to \in ids}
         IN  [st EXCEPT !.ed = Some([e \in DOMAIN ed |->
                                IF e \in hit
                                THEN [ed[e] EXCEPT !.color = HighlightEdgeColor, !.width = 3]
                                ELSE ed[e]]),
                        !.he = st.he \cup hit]

\* value.split(' \u2192 ')
RECURSIVE Split(_)
Split(s) ==
    IF \A i \in 1..Len(s) : <<s[i]>> # SEP THEN <<s>>
    ELSE LET i == CHOOSE k \in 1..Len(s) :
                      <<s[k]>> = SEP /\ \A j \in 1..(k - 1) : <<s[j]>> # SEP
         IN  <<SubSeq(s, 1, i - 1)>> \o Split(SubSeq(s, i + 1, Len(s)))

\* nodesDataset.get({filter: node => node.label?.toLowerCase() === label.toLowerCase()})
NodesWithLabel(nd, label) ==
    {n \in DOMAIN nd : nd[n].label # NoLabel
                        /\ toLowerCase(nd[n].label) = toLowerCase(label)}

RECURSIVE HighlightEach(_, _)
HighlightEach(st, ids) ==
    IF ids = {} THEN st
    ELSE LET n == CHOOSE x \in ids : TRUE
         IN  HighlightEach(highlightNode(st, n, TRUE), ids \ {n})

RECURSIVE HighlightPathLabels(_, _)
HighlightPathLabels(st, labels) ==
    IF labels = <<>> \/ st.nd = None THEN st
    ELSE HighlightPathLabels(HighlightEach(st, NodesWithLabel(Val(st.nd), Head(labels))),
                             Tail(labels))

\* as highlightQueryPath, without the clearHighlights() call
highlightQueryPath_NoClear(st, result) ==
    LET s2 == HighlightOrAdd(st, nodesToHighlight(result), TRUE)
        s3 == HighlightEdgesBetween(s2, highlightedIds(result))
    IN  IF result.path # None /\ Val(result.path) # <<>>
        THEN HighlightPathLabels(s3, Split(Val(result.path)))
        ELSE s3

\* highlightQueryPath after its clearHighlights() call (lines 858-933)
applyQueryResult(s1, result) ==
    LET s2 == HighlightOrAdd(s1, nodesToHighlight(result), TRUE)
        s3 == HighlightEdgesBetween(s2, highlightedIds(result))
    IN  IF result.path # None /\ Val(result.path) # <<>>
        THEN HighlightPathLabels(s3, Split(Val(result.path)))
        ELSE s3

highlightQueryPath(st, result) == applyQueryResult(clearHighlights(st), result)

-----------------------------------------------------------------------------
(* Traversal display *)

TraversalResult(nodes, edges) == [nodes |-> nodes, edges |-> edges]

\* as AddOrHighlightEdges, naming a dynamic edge after its position in the
\* dataset instead of looking it up by its (source, target) id
RECURSIVE AddOrHighlightEdges_Numbered(_, _)
AddOrHighlightEdges_Numbered(st, edges) ==
    IF edges = <<>> THEN st
    ELSE LET edge == Head(edges)
             edgeId == IF st.ed = None THEN DynEdgeId(edge.source, edge.target)
                       ELSE <<"dynamic-edge", edge.source, edge.target,
                              Cardinality(DOMAIN Val(st.ed))>>
             ed2 == IF st.ed = None THEN None
                    ELSE Some(Val(st.ed) @@ (edgeId :>
                                 [from |-> edge.source, to |-> edge.target,
                                  color |-> HighlightEdgeColor, width |-> 3]))
         IN  AddOrHighlightEdges_Numbered([st EXCEPT !.ed = ed2, !.he = st.he \cup {edgeId}],
                                          Tail(edges))

RECURSIVE AddOrHighlightEdges(_, _)
AddOrHighlightEdges(st, edges) ==
    IF edges = <<>> THEN st
    ELSE LET edge == Head(edges)
             edgeId == DynEdgeId(edge.source, edge.target)
             ed2 == IF st.ed = None THEN None
                    ELSE LET ed == Val(st.ed)
                         IN  IF edgeId \notin DOMAIN ed
                             THEN Some(ed @@ (edgeId :>
                                      [from |-> edge.source, to |-> edge.target,
                                       color |-> HighlightEdgeColor, width |-> 3]))
                             ELSE Some([ed EXCEPT ![edgeId] =
                                      [ed[edgeId] EXCEPT !.color = HighlightEdgeColor,
                                                         !.width = 3]])
         IN  AddOrHighlightEdges([st EXCEPT !.ed = ed2, !.he = st.he \cup {edgeId}],
                                 Tail(edges))

\* as applyTraversal, without highlighting the selected node
applyTraversal_NoOrigin(s1, selected, result) ==
    AddOrHighlightEdges(HighlightOrAdd(s1, result.nodes, FALSE), result.edges)

\* showTraversal after its clearHighlights() call (lines 1146-1186)
applyTraversal(s1, selected, result) ==
    LET s2 == highlightNode(s1, selected, TRUE)
        s3 == HighlightOrAdd(s2, result.nodes, FALSE)
    IN  AddOrHighlightEdges(s3, result.edges)

\* as showTraversal, without the clearHighlights() call
showTraversal_Additive(st, selected, result) ==
    LET s2 == highlightNode(st, selected, TRUE)
        s3 == HighlightOrAdd(s2, result.nodes, FALSE)
    IN  AddOrHighlightEdges(s3, result.edges)

\* showTraversal from the point where fetchTraversal has returned `result`
\* (lines 1143-1186); `selected` is selectedNodeId at that moment
showTraversal(st, selected, result) ==
    applyTraversal(clearHighlights(st), selected, result)

-----------------------------------------------------------------------------
(* Search and focus *)

\* The node searchAndFocusNode resolves `identifier` to (lines 1062-1065): the
\* node with that id, else a node with that label, else none (NULL)
searchAndFocusNode(nd, identifier) ==
    IF nd = None THEN NULL
    ELSE IF identifier \in DOMAIN Val(nd) THEN identifier
    ELSE LET byLabel == {n \in DOMAIN Val(nd) :
                            /\ Val(nd)[n].label # NoLabel
                            /\ toLowerCase(Val(nd)[n].label)
                                   = toLowerCase(IdChars(identifier))}
         IN  IF byLabel = {} THEN NULL ELSE CHOOSE n \in byLabel : TRUE

\* ' ' in a string
SPACE == 54

\* String.prototype.trim
RECURSIVE trim(_)
trim(s) ==
    IF s = <<>> THEN s
    ELSE IF Head(s) = SPACE THEN trim(Tail(s))
    ELSE IF s[Len(s)] = SPACE THEN trim(SubSeq(s, 1, Len(s) - 1))
    ELSE s

\* String.prototype.includes
includes(s, q) ==
    \E i \in 0..(Len(s) - Len(q)) : SubSeq(s, i + 1, i + Len(q)) = q

\* debounce(searchNodes, 300), in ticks of 100 ms
Wait == 3
\* the least query length that is searched
MinQueryLength == 2
\* limit: 10 and slice(0, 10)
SearchLimit == 10

\* as QueryTooShort, refusing the empty query only
QueryTooShort_EmptyOnly(query) == Len(query) < 1

\* searchNodes: query.length < 2
QueryTooShort(query) == Len(query) < MinQueryLength

\* searchNodes: event.target.value.trim().toLowerCase()
SearchQuery(value) == toLowerCase(trim(value))

\* as debounceCall, without clearTimeout(timeout)
debounceCall_NoClear(ts, handle, newId) ==
    [timers |-> ts \cup {[id |-> newId, left |-> Wait]}, handle |-> Some(newId)]

\* debounce's executedFunction: clearTimeout(timeout);
\* timeout = setTimeout(later, wait)
debounceCall(ts, handle, newId) ==
    [timers |-> {t \in ts : Some(t.id) # handle} \cup {[id |-> newId, left |-> Wait]},
     handle |-> Some(newId)]

\* searchNodes' fallback: the dataset items, in the order `order` of their
\* insertion, whose label or id includes the query; the first SearchLimit ids
LocalSearch(nd, order, query) ==
    IF nd = None THEN <<>>
    ELSE LET Matches(id) ==
                 \/ /\ Val(nd)[id].label # NoLabel
                    /\ includes(toLowerCase(Val(nd)[id].label), query)
                 \/ includes(toLowerCase(IdChars(id)), query)
             found == SelectSeq(order, Matches)
         IN  SubSeq(found, 1, IF Len(found) < SearchLimit THEN Len(found)
                                 ELSE SearchLimit)

-----------------------------------------------------------------------------
(* Filter and initial load *)

\* as filterGraph, also drawing a node it hides in its original colour
filterGraph_ResetsHidden(nd, enabled) ==
    [n \in DOMAIN nd |->
        LET tier == IF nd[n].tier # None THEN Val(nd[n].tier) ELSE -1
        IN  [nd[n] EXCEPT !.hidden = Some(~(tier \in enabled)),
                          !.color = IF tier \in enabled THEN @ ELSE nd[n].originalColor]]

\* as filterGraph, never hiding a node drawn in the highlight colour
filterGraph_SparesHighlighted(nd, enabled) ==
    [n \in DOMAIN nd |->
        LET tier == IF nd[n].tier # None THEN Val(nd[n].tier) ELSE -1
        IN  [nd[n] EXCEPT !.hidden = Some(~(tier \in enabled)
                                           /\ nd[n].color # HIGHLIGHT_COLOR)]]

filterGraph(nd, enabled) ==
    [n \in DOMAIN nd |->
        LET tier == IF nd[n].tier # None THEN Val(nd[n].tier) ELSE -1
        IN  [nd[n] EXCEPT !.hidden = Some(~(tier \in enabled))]]

\* initializeNetwork, lines 314-330: the renderer nodes of allNodes
PrepareNodes(allNodes) ==
    [id \in {allNodes[i].id : i \in 1..Len(allNodes)} |->
        LET node == allNodes[CHOOSE i \in 1..Len(allNodes) : allNodes[i].id = id]
        IN  [label |-> truncateLabel(LabelOrId(node), MaxLabelLength),
             color |-> getNodeColor(node),
             size |-> getNodeSize(node),
             font |-> NormalFont,
             hidden |-> None,
             tier |-> node.tier,
             type |-> node.type,
             originalColor |-> getNodeColor(node),
             data |-> Some(node)]]

\* initializeNetwork, lines 332-345: the renderer edges of allEdges
PrepareEdges(allEdges) ==
    [e \in {BulkEdgeId(i - 1) : i \in 1..Len(allEdges)} |->
        LET edge == allEdges[e[2] + 1]
        IN  [from |-> edge.source, to |-> edge.target,
             color |-> BaseEdgeColor, width |-> 1]]

-----------------------------------------------------------------------------
(* Inputs: what the backend may answer *)

SeqsUpTo(n, S) == UNION {[1..k -> S] : k \in 0..n}

Edge(s, t) == [source |-> s, target |-> t]

\* The dependency edges of the backend graph: A -> B -> C
BackendEdges == {Edge("A", "B"), Edge("B", "C")}

RECURSIVE Reach(_, _, _)
Reach(ids, up, k) ==
    IF k = 0 THEN ids
    ELSE Reach(ids \cup {IF up THEN e.source ELSE e.target :
                             e \in {x \in BackendEdges :
                                       (IF up THEN x.target ELSE x.source) \in ids}},
               up, k - 1)
Ancestors(id) == Reach({id}, TRUE, Cardinality(NodeIds)) \ {id}
Descendants(id) == Reach({id}, FALSE, Cardinality(NodeIds)) \ {id}
RecordsOf(ids) == {r \in Catalog : r.id \in ids}

\* GET /api/graph/export: an empty graph, or the sample {A, B} with A -> B
Exports ==
    { [nodes |-> <<>>, edges |-> <<>>],
      [nodes |-> <<recA, recB>>, edges |-> <<Edge("A", "B")>>] }

\* path strings: "AB -> zz" and "<the label of C> -> zz"; "zz" names no node
PathStrings == { <<27, 28>> \o SEP \o <<26, 26>>, LongLabel \o SEP \o <<26, 26>> }
Paths == {None} \cup {Some(x) : x \in PathStrings}

\* POST /api/query: no target, or a target with some of its ancestors and
\* descendants
QueryResults ==
    { QueryResult(None, <<>>, <<>>, p) : p \in Paths }
    \cup UNION { { QueryResult(Some(t), u, d, p) :
                     u \in SeqsUpTo(MaxList, RecordsOf(Ancestors(t.id))),
                     d \in SeqsUpTo(MaxList, RecordsOf(Descendants(t.id))),
                     p \in Paths } :
                 t \in Catalog }

\* POST /api/graph/traverse {node_id, direction}: some of the nodes in that
\* direction, and backend edges among them and node_id
TraversalResults(nodeId, dir) ==
    UNION { { TraversalResult(ns, es) :
                es \in SeqsUpTo(MaxList,
                        LET ids == {nodeId} \cup {ns[i].id : i \in 1..Len(ns)}
                        IN  {e \in BackendEdges : e.source \in ids /\ e.target \in ids}) } :
            ns \in SeqsUpTo(MaxList, RecordsOf(IF dir = "upstream" THEN Ancestors(nodeId)
                                                ELSE Descendants(nodeId))) }

Directions == {"upstream", "downstream"}

\* What the user may have typed into the search box:
\* "", "a", " a ", "Ab", "cc", and the 21 characters of LongLabel
InputValues == { <<>>, <<1>>, <<SPACE, 1, SPACE>>, <<27, 2>>, <<3, 3>>, LongLabel }

\* The export the search is modelled on: A, B, and C with its long label
SearchExport == [nodes |-> <<recA, recB, recC>>, edges |-> <<Edge("A", "B")>>]
SearchOrder == [i \in 1..Len(SearchExport.nodes) |-> SearchExport.nodes[i].id]

\* POST /api/graph/search: a list of nodes
RemoteResults == SeqsUpTo(1, NodeIds)

\* What a clickable node name of a query result may carry: an id, or a label
FocusIdentifiers == NodeIds \cup {"ab"}
TierBoxes == {1, 3}

-----------------------------------------------------------------------------
(* History of the last handler that changed the datasets or the highlight *)

NoRequest == [node |-> NULL, dir |-> "none"]

\* op: "highlightQueryPath", "showTraversal", or "other" for every other
\* handler; nodes, path, edges: what the response carried; req: the traversal
\* request it answers; prev: the request of the handler before it, when that
\* was a showTraversal that ran with its requested node selected
Last(op, nodes, path, edges, req) ==
    [op |-> op, nodes |-> nodes, path |-> path, edges |-> edges, req |-> req,
     prev |-> IF last.op = "showTraversal" /\ last.req.node \in highlightedNodes
                 /\ selectedNodeId = last.req.node
              THEN last.req ELSE NoRequest]

Other == [op |-> "other", nodes |-> {}, path |-> None, edges |-> {},
          req |-> NoRequest, prev |-> NoRequest]

\* What clearHighlights alone leaves as history
Cleared == [Other EXCEPT !.op = "clearHighlights"]

\* The search box before the first keystroke
SearchIdle ==
    /\ searchInput = <<>>
    /\ timers = {}
    /\ timeoutHandle = None
    /\ timersCreated = 0
    /\ searchPending = {}
    /\ searchCalls = 0
    /\ searchResults = [seq |-> 0, via |-> "none", items |-> <<>>]
    /\ invocations = 0
    /\ cancelled = 0

Ids(nodes) == {n.id : n \in nodes}
Range(f) == {f[i] : i \in DOMAIN f}

\* The node records a query result carries
ResultNodes(result) ==
    (IF result.target = None THEN {} ELSE {Val(result.target)})
        \cup Range(result.upstream) \cup Range(result.downstream)

\* No button was pressed yet
NoPress == [query |-> 0, traversal |-> 0]

\* No handler is between its clearHighlights() call and its end
Idle == [op |-> "idle"]

\* No deferred fit was requested yet
NoFit == [timer |-> 0, called |-> {}, nodes |-> {}]

\* #network-popup as initializeNetwork creates it, before the first hover
NoPopup == [display |-> FALSE, opacity |-> 0, node |-> NULL]

\* The timers and the pointer before the first event
UiIdle ==
    /\ fitTimers = {}
    /\ fitCount = 0
    /\ fitted = NoFit
    /\ networkSelection = NULL
    /\ hovered = NULL
    /\ popup = NoPopup
    /\ hideTimers = 0

Current == State(nodesDataset, edgesDataset, highlightedNodes, highlightedEdges, uuidCount)

InFlight == pendingQueries + Cardinality(pendingTraversals)

Install(st) ==
    /\ st.uu <= MaxUuid
    /\ nodesDataset' = st.nd
    /\ edgesDataset' = st.ed
    /\ highlightedNodes' = st.hn
    /\ highlightedEdges' = st.he
    /\ uuidCount' = st.uu

-----------------------------------------------------------------------------
(* Initial state and actions *)

Init ==
    /\ loadPhase = "fetching"
    /\ nodesDataset = None
    /\ edgesDataset = None
    /\ highlightedNodes = {}
    /\ highlightedEdges = {}
    /\ selectedNodeId = NULL
    /\ enabledTiers = TierBoxes
    /\ uuidCount = 0
    /\ pendingQueries = 0
    /\ pendingTraversals = {}
    /\ requestsIssued = 0
    /\ filterChanges = 0
    /\ last = Other
    /\ toasts = {}
    /\ SearchIdle
    /\ loading = TRUE
    /\ stabilization = "none"
    /\ autoFits = 0
    /\ queriesInFlight = {}
    /\ displayedQuery = 0
    /\ queryInput = <<>>
    /\ pressed = NoPress
    /\ running = Idle
    /\ UiIdle

\* as LoadingAfterInitialize, hiding the indicator when initializeNetwork is over
LoadingAfterInitialize_Hidden(allNodes, shown) == FALSE

\* #graph-loading after initializeNetwork created the network: hidden for an
\* empty graph, else left as it was
LoadingAfterInitialize(allNodes, shown) ==
    IF Len(allNodes) = 0 THEN FALSE ELSE shown

\* loadGraphData: the export arrived; processGraphData, initializeNetwork
LoadSucceeds ==
    /\ loadPhase = "fetching"
    /\ \E e \in Exports :
          /\ IF Len(e.nodes) = 0
             THEN /\ UNCHANGED <<nodesDataset, edgesDataset, stabilization>>
                  /\ toasts' = {"No graph nodes available"}
             ELSE /\ nodesDataset' = Some(PrepareNodes(e.nodes))
                  /\ edgesDataset' = Some(PrepareEdges(e.edges))
                  /\ toasts' = {}
                  /\ stabilization' = "running"
          /\ loading' = LoadingAfterInitialize(e.nodes, loading)
          /\ last' = Other
    /\ loadPhase' = "done"
    /\ UNCHANGED <<highlightedNodes, highlightedEdges, selectedNodeId, enabledTiers,
                   uuidCount, pendingQueries, pendingTraversals, requestsIssued,
                   filterChanges, autoFits>>
    /\ UNCHANGED searchVars
    /\ UNCHANGED running
    /\ UNCHANGED uiVars
    /\ UNCHANGED queryVars

\* loadGraphData: the export failed; allNodes = [], initializeNetwork returns early
LoadFails ==
    /\ loadPhase = "fetching"
    /\ loadPhase' = "failed"
    /\ last' = Other
    /\ UNCHANGED <<nodesDataset, edgesDataset, highlightedNodes, highlightedEdges,
                   selectedNodeId, enabledTiers, uuidCount, pendingQueries,
                   pendingTraversals, requestsIssued, filterChanges>>
    /\ toasts' = {"Failed to load graph", "No graph nodes available"}
    /\ loading' = FALSE
    /\ UNCHANGED <<stabilization, autoFits>>
    /\ UNCHANGED searchVars
    /\ UNCHANGED running
    /\ UNCHANGED uiVars
    /\ UNCHANGED queryVars

\* network.on('selectNode'): the user clicks a drawn node
SelectNode ==
    /\ nodesDataset # None
    /\ \E n \in DOMAIN Val(nodesDataset) :
          /\ Val(nodesDataset)[n].hidden # Some(TRUE)
          /\ selectedNodeId' = n
    /\ UNCHANGED <<loadPhase, nodesDataset, edgesDataset, highlightedNodes,
                   highlightedEdges, enabledTiers, uuidCount, pendingQueries,
                   pendingTraversals, last, requestsIssued, filterChanges>>
    /\ toasts' = {}
    /\ UNCHANGED searchVars
    /\ UNCHANGED running
    /\ UNCHANGED uiVars
    /\ UNCHANGED queryVars
    /\ UNCHANGED rendererVars

\* network.on('deselectNode'): clearNodeSelection
DeselectNode ==
    /\ nodesDataset # None
    /\ selectedNodeId # NULL
    /\ selectedNodeId' = NULL
    /\ UNCHANGED <<loadPhase, nodesDataset, edgesDataset, highlightedNodes,
                   highlightedEdges, enabledTiers, uuidCount, pendingQueries,
                   pendingTraversals, last, requestsIssued, filterChanges>>
    /\ toasts' = {}
    /\ UNCHANGED searchVars
    /\ UNCHANGED running
    /\ UNCHANGED uiVars
    /\ UNCHANGED queryVars
    /\ UNCHANGED rendererVars

\* a tier checkbox changes: filterGraph
FilterChange ==
    /\ filterChanges < MaxFilterChanges
    /\ filterChanges' = filterChanges + 1
    /\ \E t \in TierBoxes :
          LET enabled == IF t \in enabledTiers THEN enabledTiers \ {t}
                         ELSE enabledTiers \cup {t}
          IN  /\ enabledTiers' = enabled
              /\ nodesDataset' = IF nodesDataset = None THEN None
                                 ELSE Some(filterGraph(Val(nodesDataset), enabled))
    /\ UNCHANGED <<loadPhase, edgesDataset, highlightedNodes, highlightedEdges,
                   selectedNodeId, uuidCount, pendingQueries, pendingTraversals, last,
                   requestsIssued>>
    /\ toasts' = {}
    /\ UNCHANGED searchVars
    /\ UNCHANGED running
    /\ UNCHANGED uiVars
    /\ UNCHANGED queryVars
    /\ UNCHANGED rendererVars

\* btn-clear-highlight
ClearHighlights ==
    /\ Install(clearHighlights(Current))
    /\ last' = Cleared
    /\ UNCHANGED <<loadPhase, selectedNodeId, enabledTiers, pendingQueries,
                   pendingTraversals, requestsIssued, filterChanges>>
    /\ toasts' = {}
    /\ UNCHANGED searchVars
    /\ UNCHANGED running
    /\ UNCHANGED uiVars
    /\ UNCHANGED queryVars
    /\ UNCHANGED rendererVars

\* btn-reset-view: resetView = fit, clearHighlights, clearNodeSelection
ResetView ==
    /\ Install(clearHighlights(Current))
    /\ selectedNodeId' = NULL
    /\ last' = Cleared
    /\ UNCHANGED <<loadPhase, enabledTiers, pendingQueries, pendingTraversals,
                   requestsIssued, filterChanges>>
    /\ toasts' = {}
    /\ UNCHANGED searchVars
    /\ UNCHANGED running
    /\ UNCHANGED uiVars
    /\ UNCHANGED queryVars
    /\ UNCHANGED rendererVars

\* A click on a node name of the displayed query result:
\* searchAndFocusNode(identifier), then focusOnNode and selectNode
SearchAndFocusNode ==
    /\ \E identifier \in FocusIdentifiers :
          LET node == searchAndFocusNode(nodesDataset, identifier)
          IN  IF node # NULL
              THEN /\ selectedNodeId' = node
                   /\ toasts' = {}
              ELSE /\ UNCHANGED selectedNodeId
                   /\ toasts' = {"not found in current view"}
    /\ UNCHANGED <<loadPhase, nodesDataset, edgesDataset, highlightedNodes,
                   highlightedEdges, enabledTiers, uuidCount, pendingQueries,
                   pendingTraversals, last, requestsIssued, filterChanges>>
    /\ UNCHANGED searchVars
    /\ UNCHANGED running
    /\ UNCHANGED uiVars
    /\ UNCHANGED queryVars
    /\ UNCHANGED rendererVars

\* executeQuery up to the fetch, with fewer than `limit` requests in flight
IssueQuery(limit) ==
    /\ InFlight < limit
    /\ requestsIssued < MaxRequests
    /\ requestsIssued' = requestsIssued + 1
    /\ pendingQueries' = pendingQueries + 1
    /\ queriesInFlight' = queriesInFlight \cup {requestsIssued + 1}
    /\ UNCHANGED displayedQuery
    /\ UNCHANGED <<loadPhase, nodesDataset, edgesDataset, highlightedNodes,
                   highlightedEdges, selectedNodeId, enabledTiers, uuidCount,
                   pendingTraversals, last, filterChanges>>
    /\ toasts' = {}
    /\ UNCHANGED searchVars
    /\ UNCHANGED running
    /\ UNCHANGED uiVars
    /\ UNCHANGED rendererVars
    /\ UNCHANGED <<queryInput, pressed>>

ExecuteQuery == IssueQuery(MaxPending)

\* executeQuery after the fetch: displayQueryResult, highlightQueryPath
QueryResponse ==
    /\ pendingQueries > 0
    /\ pendingQueries' = pendingQueries - 1
    /\ \E q \in queriesInFlight :
          /\ queriesInFlight' = queriesInFlight \ {q}
          /\ displayedQuery' = q
    /\ \E result \in QueryResults :
          /\ Install(highlightQueryPath(Current, result))
          /\ last' = Last("highlightQueryPath", ResultNodes(result), result.path,
                          {}, NoRequest)
    /\ UNCHANGED <<loadPhase, selectedNodeId, enabledTiers, pendingTraversals,
                   requestsIssued, filterChanges>>
    /\ toasts' = {"Query completed"}
    /\ UNCHANGED searchVars
    /\ UNCHANGED running
    /\ UNCHANGED uiVars
    /\ UNCHANGED rendererVars
    /\ UNCHANGED <<queryInput, pressed>>

\* executeQuery: the fetch failed or the status is not ok
QueryFails ==
    /\ pendingQueries > 0
    /\ pendingQueries' = pendingQueries - 1
    /\ \E q \in queriesInFlight : queriesInFlight' = queriesInFlight \ {q}
    /\ UNCHANGED displayedQuery
    /\ last' = Other
    /\ UNCHANGED <<loadPhase, nodesDataset, edgesDataset, highlightedNodes,
                   highlightedEdges, selectedNodeId, enabledTiers, uuidCount,
                   pendingTraversals, requestsIssued, filterChanges>>
    /\ toasts' = {"Query failed"}
    /\ UNCHANGED searchVars
    /\ UNCHANGED running
    /\ UNCHANGED uiVars
    /\ UNCHANGED rendererVars
    /\ UNCHANGED <<queryInput, pressed>>

\* showTraversal up to the fetch of fetchTraversal(selectedNodeId, direction)
RequestTraversal ==
    /\ selectedNodeId # NULL
    /\ InFlight < MaxPending
    /\ requestsIssued < MaxRequests
    /\ requestsIssued' = requestsIssued + 1
    /\ \E dir \in Directions :
          pendingTraversals' = pendingTraversals \cup {[node |-> selectedNodeId, dir |-> dir]}
    /\ UNCHANGED <<loadPhase, nodesDataset, edgesDataset, highlightedNodes,
                   highlightedEdges, selectedNodeId, enabledTiers, uuidCount,
                   pendingQueries, last, filterChanges>>
    /\ toasts' = {}
    /\ UNCHANGED searchVars
    /\ UNCHANGED running
    /\ UNCHANGED uiVars
    /\ UNCHANGED queryVars
    /\ UNCHANGED rendererVars

\* showTraversal after fetchTraversal returned a result with nodes
TraversalResponse ==
    \E req \in pendingTraversals :
        /\ pendingTraversals' = pendingTraversals \ {req}
        /\ \E result \in TraversalResults(req.node, req.dir) :
              /\ Install(showTraversal(Current, selectedNodeId, result))
              /\ last' = Last("showTraversal", Range(result.nodes), None,
                              Range(result.edges), req)
        /\ UNCHANGED <<loadPhase, selectedNodeId, enabledTiers, pendingQueries,
                       requestsIssued, filterChanges>>
        /\ toasts' = {"Found nodes"}
        /\ UNCHANGED searchVars
        /\ UNCHANGED running
        /\ UNCHANGED uiVars
        /\ UNCHANGED queryVars
        /\ UNCHANGED rendererVars

\* showTraversal after fetchTraversal returned null
TraversalFails ==
    \E req \in pendingTraversals :
        /\ pendingTraversals' = pendingTraversals \ {req}
        /\ last' = Other
        /\ UNCHANGED <<loadPhase, nodesDataset, edgesDataset, highlightedNodes,
                       highlightedEdges, selectedNodeId, enabledTiers, uuidCount,
                       pendingQueries, requestsIssued, filterChanges>>
        /\ toasts' = {}
        /\ UNCHANGED searchVars
        /\ UNCHANGED running
        /\ UNCHANGED uiVars
        /\ UNCHANGED queryVars
        /\ UNCHANGED rendererVars

Next ==
    \/ LoadSucceeds
    \/ LoadFails
    \/ SelectNode
    \/ DeselectNode
    \/ FilterChange
    \/ ClearHighlights
    \/ ResetView
    \/ SearchAndFocusNode
    \/ ExecuteQuery
    \/ QueryResponse
    \/ QueryFails
    \/ RequestTraversal
    \/ TraversalResponse
    \/ TraversalFails

Spec == Init /\ [][Next]_vars

-----------------------------------------------------------------------------
(* The search box, on a graph that is loaded (or could not be loaded) and *)
(* otherwise left alone                                                    *)

SearchInit ==
    /\ \/ /\ loadPhase = "done"
          /\ nodesDataset = Some(PrepareNodes(SearchExport.nodes))
          /\ edgesDataset = Some(PrepareEdges(SearchExport.edges))
          /\ stabilization = "done"
          /\ autoFits = 1
       \/ /\ loadPhase = "failed"
          /\ nodesDataset = None
          /\ edgesDataset = None
          /\ stabilization = "none"
          /\ autoFits = 0
    /\ loading = FALSE
    /\ queriesInFlight = {}
    /\ displayedQuery = 0
    /\ queryInput = <<>>
    /\ pressed = NoPress
    /\ running = Idle
    /\ UiIdle
    /\ highlightedNodes = {}
    /\ highlightedEdges = {}
    /\ selectedNodeId = NULL
    /\ enabledTiers = TierBoxes
    /\ uuidCount = 0
    /\ pendingQueries = 0
    /\ pendingTraversals = {}
    /\ requestsIssued = 0
    /\ filterChanges = 0
    /\ last = Other
    /\ toasts = {}
    /\ SearchIdle

\* 'input' on #node-search: the debounced searchNodes is called
InputEvent ==
    /\ timersCreated < MaxInputs
    /\ \E v \in InputValues \ {searchInput} : searchInput' = v
    /\ LET d == debounceCall(timers, timeoutHandle, timersCreated + 1)
       IN  /\ timers' = d.timers
           /\ timeoutHandle' = d.handle
           /\ cancelled' = cancelled + Cardinality(timers \ d.timers)
    /\ timersCreated' = timersCreated + 1
    /\ toasts' = {}
    /\ UNCHANGED <<searchPending, searchCalls, searchResults, invocations>>
    /\ UNCHANGED graphVars
    /\ UNCHANGED running
    /\ UNCHANGED uiVars
    /\ UNCHANGED queryVars
    /\ UNCHANGED rendererVars

\* 100 ms pass; a timer that is due fires before more time passes
Tick ==
    /\ timers # {}
    /\ \A t \in timers : t.left > 0
    /\ timers' = {[t EXCEPT !.left = @ - 1] : t \in timers}
    /\ toasts' = {}
    /\ UNCHANGED <<searchInput, timeoutHandle, timersCreated, searchPending,
                   searchCalls, searchResults, invocations, cancelled>>
    /\ UNCHANGED graphVars
    /\ UNCHANGED running
    /\ UNCHANGED uiVars
    /\ UNCHANGED queryVars
    /\ UNCHANGED rendererVars

\* A timer is due: later() = clearTimeout(timeout); searchNodes(event), up to
\* the fetch
TimerFires ==
    /\ \E t \in timers :
          /\ t.left = 0
          /\ LET rest == {x \in timers \ {t} : Some(x.id) # timeoutHandle}
                 query == SearchQuery(searchInput)
             IN  /\ timers' = rest
                 /\ cancelled' = cancelled + Cardinality((timers \ {t}) \ rest)
                 /\ IF QueryTooShort(query)
                    THEN /\ searchResults' = [seq |-> 0, via |-> "none", items |-> <<>>]
                         /\ UNCHANGED <<searchPending, searchCalls>>
                    ELSE /\ searchCalls' = searchCalls + 1
                         /\ searchPending' = searchPending
                                \cup {[seq |-> searchCalls + 1, query |-> query]}
                         /\ UNCHANGED searchResults
    /\ invocations' = invocations + 1
    /\ toasts' = {}
    /\ UNCHANGED <<searchInput, timeoutHandle, timersCreated>>
    /\ UNCHANGED graphVars
    /\ UNCHANGED running
    /\ UNCHANGED uiVars
    /\ UNCHANGED queryVars
    /\ UNCHANGED rendererVars

\* searchNodes after the fetch: displaySearchResults(data.results || [])
SearchResponse ==
    /\ \E req \in searchPending :
          /\ searchPending' = searchPending \ {req}
          /\ \E results \in RemoteResults :
                searchResults' = [seq |-> req.seq, via |-> "remote", items |-> results]
    /\ toasts' = {}
    /\ UNCHANGED <<searchInput, timers, timeoutHandle, timersCreated, searchCalls,
                   invocations, cancelled>>
    /\ UNCHANGED graphVars
    /\ UNCHANGED running
    /\ UNCHANGED uiVars
    /\ UNCHANGED queryVars
    /\ UNCHANGED rendererVars

\* searchNodes: the fetch failed or the status is not ok; local fallback
SearchFails ==
    /\ \E req \in searchPending :
          /\ searchPending' = searchPending \ {req}
          /\ searchResults' = [seq |-> req.seq, via |-> "local",
                               items |-> LocalSearch(nodesDataset, SearchOrder, req.query)]
    /\ toasts' = {}
    /\ UNCHANGED <<searchInput, timers, timeoutHandle, timersCreated, searchCalls,
                   invocations, cancelled>>
    /\ UNCHANGED graphVars
    /\ UNCHANGED running
    /\ UNCHANGED uiVars
    /\ UNCHANGED queryVars
    /\ UNCHANGED rendererVars

SearchNext ==
    \/ InputEvent
    \/ Tick
    \/ TimerFires
    \/ SearchResponse
    \/ SearchFails

SearchSpec == SearchInit /\ [][SearchNext]_vars

-----------------------------------------------------------------------------
(* The load of the graph with a renderer that may fail to start, up to the *)
(* end of its layout                                                        *)

\* Why initializeNetwork may return early on an export that has nodes
InitFailures == {"no canvas", "no size", "no vis", "throws"}

\* loadGraphData: the export arrived with nodes, and initializeNetwork ends
\* early: no #graph-canvas, a canvas of size zero, no vis library, or an
\* exception after the datasets were created
InitializeNetworkFails ==
    /\ loadPhase = "fetching"
    /\ loadPhase' = "norenderer"
    /\ \E e \in {x \in Exports : Len(x.nodes) > 0} : \E cause \in InitFailures :
          /\ IF cause = "throws"
             THEN /\ nodesDataset' = Some(PrepareNodes(e.nodes))
                  /\ edgesDataset' = Some(PrepareEdges(e.edges))
             ELSE UNCHANGED <<nodesDataset, edgesDataset>>
          /\ toasts' = CASE cause = "no canvas" -> {}
                          [] cause = "no size" -> {"Graph canvas has no size"}
                          [] cause = "no vis" -> {"Visualization library failed to load"}
                          [] cause = "throws" -> {"Failed to initialize graph"}
          /\ loading' = IF cause \in {"no vis", "throws"} THEN FALSE ELSE loading
    /\ last' = Other
    /\ UNCHANGED <<highlightedNodes, highlightedEdges, selectedNodeId, enabledTiers,
                   uuidCount, pendingQueries, pendingTraversals, requestsIssued,
                   filterChanges, stabilization, autoFits>>
    /\ UNCHANGED searchVars
    /\ UNCHANGED running
    /\ UNCHANGED uiVars
    /\ UNCHANGED queryVars

\* network.on('stabilizationIterationsDone'): hide #graph-loading, network.fit
StabilizationDone ==
    /\ stabilization = "running"
    /\ stabilization' = "done"
    /\ loading' = FALSE
    /\ autoFits' = autoFits + 1
    /\ toasts' = {}
    /\ UNCHANGED graphVars
    /\ UNCHANGED searchVars
    /\ UNCHANGED running
    /\ UNCHANGED uiVars
    /\ UNCHANGED queryVars

LoadNext ==
    \/ LoadSucceeds
    \/ LoadFails
    \/ InitializeNetworkFails
    \/ StabilizationDone
    \/ FilterChange
    \/ ClearHighlights
    \/ ResetView
    \/ ExecuteQuery
    \/ QueryResponse
    \/ QueryFails

LoadSpec == Init /\ [][LoadNext]_vars

-----------------------------------------------------------------------------
(* Queries that overlap, on the loaded sample graph *)

LoadedExport == CHOOSE e \in Exports : Len(e.nodes) > 0

OverlapInit ==
    /\ loadPhase = "done"
    /\ nodesDataset = Some(PrepareNodes(LoadedExport.nodes))
    /\ edgesDataset = Some(PrepareEdges(LoadedExport.edges))
    /\ highlightedNodes = {}
    /\ highlightedEdges = {}
    /\ selectedNodeId = NULL
    /\ enabledTiers = TierBoxes
    /\ uuidCount = 0
    /\ pendingQueries = 0
    /\ pendingTraversals = {}
    /\ requestsIssued = 0
    /\ filterChanges = 0
    /\ last = Other
    /\ toasts = {}
    /\ SearchIdle
    /\ loading = FALSE
    /\ stabilization = "done"
    /\ autoFits = 1
    /\ queriesInFlight = {}
    /\ displayedQuery = 0
    /\ queryInput = <<>>
    /\ pressed = NoPress
    /\ running = Idle
    /\ UiIdle

\* btn-execute-query pressed while an earlier query may still be in flight
OverlappingQuery == IssueQuery(MaxConcurrent)

OverlapNext ==
    \/ OverlappingQuery
    \/ QueryResponse
    \/ QueryFails
    \/ ClearHighlights

OverlapSpec == OverlapInit /\ [][OverlapNext]_vars

-----------------------------------------------------------------------------
(* The completions of a query and of a traversal in two steps, the         *)
(* clearHighlights() call and the rest, on the loaded sample graph: the    *)
(* event loop starts a handler only when no handler is running, and no     *)
(* await separates the two steps                                           *)

\* as CanDispatch, as if the handler awaited after clearHighlights()
CanDispatch_Always(task) == TRUE

\* The event loop may start a handler
CanDispatch(task) == task.op = "idle"

\* executeQuery after the fetch, up to the end of highlightQueryPath's
\* clearHighlights() call
QueryResponseClears ==
    /\ CanDispatch(running)
    /\ pendingQueries > 0
    /\ pendingQueries' = pendingQueries - 1
    /\ \E q \in queriesInFlight :
          /\ queriesInFlight' = queriesInFlight \ {q}
          /\ displayedQuery' = q
    /\ \E result \in QueryResults :
          /\ highlightQueryPath(Current, result).uu <= MaxUuid
          /\ Install(clearHighlights(Current))
          /\ last' = Last("highlightQueryPath", ResultNodes(result), result.path,
                          {}, NoRequest)
          /\ running' = [op |-> "highlightQueryPath", before |-> Current,
                         result |-> result, selected |-> selectedNodeId]
    /\ UNCHANGED <<loadPhase, selectedNodeId, enabledTiers, pendingTraversals,
                   requestsIssued, filterChanges>>
    /\ toasts' = {}
    /\ UNCHANGED searchVars
    /\ UNCHANGED rendererVars
    /\ UNCHANGED uiVars
    /\ UNCHANGED <<queryInput, pressed>>

\* showTraversal after fetchTraversal returned a result with nodes, up to the
\* end of its clearHighlights() call
TraversalResponseClears ==
    /\ CanDispatch(running)
    /\ \E req \in pendingTraversals :
          /\ pendingTraversals' = pendingTraversals \ {req}
          /\ \E result \in TraversalResults(req.node, req.dir) :
                /\ showTraversal(Current, selectedNodeId, result).uu <= MaxUuid
                /\ Install(clearHighlights(Current))
                /\ last' = Last("showTraversal", Range(result.nodes), None,
                                Range(result.edges), req)
                /\ running' = [op |-> "showTraversal", before |-> Current,
                               result |-> result, selected |-> selectedNodeId]
    /\ UNCHANGED <<loadPhase, selectedNodeId, enabledTiers, pendingQueries,
                   requestsIssued, filterChanges>>
    /\ toasts' = {}
    /\ UNCHANGED searchVars
    /\ UNCHANGED rendererVars
    /\ UNCHANGED queryVars
    /\ UNCHANGED uiVars

\* The rest of highlightQueryPath or of showTraversal, to its end
HandlerCompletes ==
    /\ running.op # "idle"
    /\ IF running.op = "highlightQueryPath"
       THEN /\ Install(applyQueryResult(Current, running.result))
            /\ toasts' = {"Query completed"}
       ELSE /\ Install(applyTraversal(Current, selectedNodeId, running.result))
            /\ toasts' = {"Found nodes"}
    /\ running' = Idle
    /\ UNCHANGED <<loadPhase, selectedNodeId, enabledTiers, pendingQueries,
                   pendingTraversals, requestsIssued, filterChanges, last>>
    /\ UNCHANGED searchVars
    /\ UNCHANGED rendererVars
    /\ UNCHANGED queryVars
    /\ UNCHANGED uiVars

\* A handler that the event loop starts and that runs to its end
HandlerRuns ==
    /\ CanDispatch(running)
    /\ \/ SelectNode
       \/ DeselectNode
       \/ FilterChange
       \/ ClearHighlights
       \/ ExecuteQuery
       \/ QueryFails
       \/ RequestTraversal
       \/ TraversalFails

TaskNext ==
    \/ QueryResponseClears
    \/ TraversalResponseClears
    \/ HandlerCompletes
    \/ HandlerRuns

TaskSpec == OverlapInit /\ [][TaskNext]_vars

-----------------------------------------------------------------------------
(* The deferred view fits of highlightQueryPath and showTraversal, on the  *)
(* loaded sample graph                                                     *)

\* The nodes option of the network.fit call made by a timer's callback:
\* Array.from(highlightedNodes), evaluated when the callback runs
FittedNodes(timer, highlighted) == highlighted

\* if (highlightedNodes.size > 0) setTimeout(() => network.fit(...), 100)
RequestFit(highlighted) ==
    IF highlighted # {}
    THEN /\ fitTimers' = fitTimers \cup {[id |-> fitCount + 1, called |-> highlighted]}
         /\ fitCount' = fitCount + 1
         /\ UNCHANGED fitted
    ELSE UNCHANGED fitVars

\* executeQuery after the fetch: displayQueryResult, highlightQueryPath and
\* its request of a deferred fit
QueryResponseFits ==
    /\ pendingQueries > 0
    /\ pendingQueries' = pendingQueries - 1
    /\ \E q \in queriesInFlight :
          /\ queriesInFlight' = queriesInFlight \ {q}
          /\ displayedQuery' = q
    /\ \E result \in QueryResults :
          /\ Install(highlightQueryPath(Current, result))
          /\ last' = Last("highlightQueryPath", ResultNodes(result), result.path,
                          {}, NoRequest)
    /\ RequestFit(highlightedNodes')
    /\ UNCHANGED <<loadPhase, selectedNodeId, enabledTiers, pendingTraversals,
                   requestsIssued, filterChanges>>
    /\ toasts' = {"Query completed"}
    /\ UNCHANGED searchVars
    /\ UNCHANGED running
    /\ UNCHANGED rendererVars
    /\ UNCHANGED <<selectionVars, popupVars>>
    /\ UNCHANGED <<queryInput, pressed>>

\* showTraversal after fetchTraversal returned a result with nodes, and its
\* request of a deferred fit
TraversalResponseFits ==
    \E req \in pendingTraversals :
        /\ pendingTraversals' = pendingTraversals \ {req}
        /\ \E result \in TraversalResults(req.node, req.dir) :
              /\ Install(showTraversal(Current, selectedNodeId, result))
              /\ last' = Last("showTraversal", Range(result.nodes), None,
                              Range(result.edges), req)
        /\ RequestFit(highlightedNodes')
        /\ UNCHANGED <<loadPhase, selectedNodeId, enabledTiers, pendingQueries,
                       requestsIssued, filterChanges>>
        /\ toasts' = {"Found nodes"}
        /\ UNCHANGED searchVars
        /\ UNCHANGED running
        /\ UNCHANGED queryVars
        /\ UNCHANGED rendererVars
        /\ UNCHANGED <<selectionVars, popupVars>>

\* The callback of the oldest deferred fit runs: network.fit({nodes: ...})
FitFires ==
    /\ fitTimers # {}
    /\ LET timer == CHOOSE t \in fitTimers : \A u \in fitTimers : t.id <= u.id
       IN  /\ fitTimers' = fitTimers \ {timer}
           /\ fitted' = [timer |-> timer.id, called |-> timer.called,
                          nodes |-> FittedNodes(timer, highlightedNodes)]
    /\ UNCHANGED fitCount
    /\ UNCHANGED graphVars
    /\ toasts' = {}
    /\ UNCHANGED searchVars
    /\ UNCHANGED running
    /\ UNCHANGED queryVars
    /\ UNCHANGED rendererVars
    /\ UNCHANGED <<selectionVars, popupVars>>

FitNext ==
    \/ QueryResponseFits
    \/ TraversalResponseFits
    \/ FitFires
    \/ SelectNode
    \/ DeselectNode
    \/ ClearHighlights
    \/ ResetView
    \/ ExecuteQuery
    \/ QueryFails
    \/ RequestTraversal
    \/ TraversalFails

FitSpec == OverlapInit /\ [][FitNext]_vars

-----------------------------------------------------------------------------
(* The load of a graph with fields of every tier and a concept *)

\* The tiers of the palette TIER_COLORS
Tiers == 0..5

\* The floor 12 of getNodeSize, in half-units
SizeFloor == 24

\* GET /api/graph/export: two fields of any tier and a concept
SizedExports ==
    { [nodes |-> << [id |-> "A", label |-> <<27, 2>>, tier |-> Some(t), type |-> "FIELD"],
                    [id |-> "B", label |-> <<3, 4>>, tier |-> Some(u), type |-> "FIELD"],
                    [id |-> "C", label |-> LongLabel, tier |-> c, type |-> "CONCEPT"] >>,
       edges |-> <<Edge("A", "B")>>] :
        t \in Tiers, u \in Tiers, c \in {None} \cup {Some(x) : x \in Tiers} }

\* loadGraphData: such an export arrived; processGraphData, initializeNetwork
LoadSizedGraph ==
    /\ loadPhase = "fetching"
    /\ \E e \in SizedExports :
          /\ nodesDataset' = Some(PrepareNodes(e.nodes))
          /\ edgesDataset' = Some(PrepareEdges(e.edges))
          /\ loading' = LoadingAfterInitialize(e.nodes, loading)
    /\ toasts' = {}
    /\ stabilization' = "running"
    /\ last' = Other
    /\ loadPhase' = "done"
    /\ UNCHANGED <<highlightedNodes, highlightedEdges, selectedNodeId, enabledTiers,
                   uuidCount, pendingQueries, pendingTraversals, requestsIssued,
                   filterChanges, autoFits>>
    /\ UNCHANGED searchVars
    /\ UNCHANGED running
    /\ UNCHANGED uiVars
    /\ UNCHANGED queryVars

SizeNext ==
    \/ LoadSizedGraph
    \/ SelectNode
    \/ DeselectNode
    \/ FilterChange

SizeSpec == Init /\ [][SizeNext]_vars

-----------------------------------------------------------------------------
(* The selection of the renderer and selectedNodeId, on the loaded sample  *)
(* graph                                                                   *)

\* The user clicks a drawn node: the renderer selects it and emits
\* 'selectNode', whose handler calls selectNode(nodeId)
SelectNodeEvent ==
    /\ nodesDataset # None
    /\ \E n \in DOMAIN Val(nodesDataset) :
          /\ Val(nodesDataset)[n].hidden # Some(TRUE)
          /\ networkSelection' = n
          /\ selectedNodeId' = n
    /\ UNCHANGED <<loadPhase, nodesDataset, edgesDataset, highlightedNodes,
                   highlightedEdges, enabledTiers, uuidCount, pendingQueries,
                   pendingTraversals, last, requestsIssued, filterChanges>>
    /\ toasts' = {}
    /\ UNCHANGED <<searchVars, running, queryVars, rendererVars, fitVars, popupVars>>

\* The user clicks the empty canvas while a node is selected in the renderer:
\* the renderer unselects it and emits 'deselectNode': clearNodeSelection()
DeselectNodeEvent ==
    /\ networkSelection # NULL
    /\ networkSelection' = NULL
    /\ selectedNodeId' = NULL
    /\ UNCHANGED <<loadPhase, nodesDataset, edgesDataset, highlightedNodes,
                   highlightedEdges, enabledTiers, uuidCount, pendingQueries,
                   pendingTraversals, last, requestsIssued, filterChanges>>
    /\ toasts' = {}
    /\ UNCHANGED <<searchVars, running, queryVars, rendererVars, fitVars, popupVars>>

\* The second click of a double click on the node that the first click
\* selected: 'doubleClick', focusOnNode(nodeId) and its network.selectNodes
DoubleClickEvent ==
    /\ networkSelection # NULL
    /\ networkSelection = selectedNodeId
    /\ networkSelection' = networkSelection
    /\ UNCHANGED graphVars
    /\ toasts' = {}
    /\ UNCHANGED <<searchVars, running, queryVars, rendererVars, fitVars, popupVars>>

\* searchAndFocusNode(identifier): focusOnNode(node.id), which selects the
\* node in the renderer, then selectNode(node.id)
SearchAndFocusNodeSelects ==
    /\ \E identifier \in FocusIdentifiers :
          LET node == searchAndFocusNode(nodesDataset, identifier)
          IN  IF node # NULL
              THEN /\ networkSelection' = node
                   /\ selectedNodeId' = node
                   /\ toasts' = {}
              ELSE /\ UNCHANGED <<networkSelection, selectedNodeId>>
                   /\ toasts' = {"not found in current view"}
    /\ UNCHANGED <<loadPhase, nodesDataset, edgesDataset, highlightedNodes,
                   highlightedEdges, enabledTiers, uuidCount, pendingQueries,
                   pendingTraversals, last, requestsIssued, filterChanges>>
    /\ UNCHANGED <<searchVars, running, queryVars, rendererVars, fitVars, popupVars>>

\* btn-reset-view: resetView = network.fit, clearHighlights,
\* clearNodeSelection; nothing is unselected in the renderer
ResetViewEvent ==
    /\ Install(clearHighlights(Current))
    /\ selectedNodeId' = NULL
    /\ UNCHANGED networkSelection
    /\ last' = Cleared
    /\ UNCHANGED <<loadPhase, enabledTiers, pendingQueries, pendingTraversals,
                   requestsIssued, filterChanges>>
    /\ toasts' = {}
    /\ UNCHANGED <<searchVars, running, queryVars, rendererVars, fitVars, popupVars>>

SelectionNext ==
    \/ SelectNodeEvent
    \/ DeselectNodeEvent
    \/ DoubleClickEvent
    \/ SearchAndFocusNodeSelects
    \/ ResetViewEvent
    \/ ExecuteQuery
    \/ QueryResponse
    \/ QueryFails

SelectionSpec == OverlapInit /\ [][SelectionNext]_vars

-----------------------------------------------------------------------------
(* The hover popup, on the loaded sample graph *)

\* hideNodePopup: opacity 0 now, display 'none' 200 ms later
hideNodePopup(p, pending) ==
    [popup |-> [p EXCEPT !.opacity = 0], hideTimers |-> pending + 1]

\* 'hoverNode': the pointer enters a drawn node; showNodePopup if the node
\* has data
HoverNode ==
    /\ nodesDataset # None
    /\ hovered = NULL
    /\ \E n \in DOMAIN Val(nodesDataset) :
          /\ Val(nodesDataset)[n].hidden # Some(TRUE)
          /\ hovered' = n
          /\ popup' = IF Val(nodesDataset)[n].data # None
                       THEN [display |-> TRUE, opacity |-> 1, node |-> n]
                       ELSE popup
    /\ UNCHANGED hideTimers
    /\ UNCHANGED graphVars
    /\ toasts' = {}
    /\ UNCHANGED <<searchVars, running, queryVars, rendererVars, fitVars, selectionVars>>

\* 'blurNode': the pointer leaves the node; hideNodePopup
BlurNode ==
    /\ hovered # NULL
    /\ hideTimers < MaxHideTimers
    /\ hovered' = NULL
    /\ popup' = hideNodePopup(popup, hideTimers).popup
    /\ hideTimers' = hideNodePopup(popup, hideTimers).hideTimers
    /\ UNCHANGED graphVars
    /\ toasts' = {}
    /\ UNCHANGED <<searchVars, running, queryVars, rendererVars, fitVars, selectionVars>>

\* 'dragStart': hideNodePopup
DragStart ==
    /\ nodesDataset # None
    /\ hideTimers < MaxHideTimers
    /\ popup' = hideNodePopup(popup, hideTimers).popup
    /\ hideTimers' = hideNodePopup(popup, hideTimers).hideTimers
    /\ UNCHANGED hovered
    /\ UNCHANGED graphVars
    /\ toasts' = {}
    /\ UNCHANGED <<searchVars, running, queryVars, rendererVars, fitVars, selectionVars>>

\* The callback of a timer of hideNodePopup runs: display = 'none'
HideFires ==
    /\ hideTimers > 0
    /\ hideTimers' = hideTimers - 1
    /\ popup' = [popup EXCEPT !.display = FALSE]
    /\ UNCHANGED hovered
    /\ UNCHANGED graphVars
    /\ toasts' = {}
    /\ UNCHANGED <<searchVars, running, queryVars, rendererVars, fitVars, selectionVars>>

PopupNext ==
    \/ HoverNode
    \/ BlurNode
    \/ DragStart
    \/ HideFires
    \/ ExecuteQuery
    \/ QueryResponse
    \/ QueryFails

PopupSpec == OverlapInit /\ [][PopupNext]_vars

-----------------------------------------------------------------------------
(* The guards of executeQuery and showTraversal, on the loaded sample graph *)

\* What may be typed in #query-input: "", "  ", " a"
QueryTexts == { <<>>, <<SPACE, SPACE>>, <<SPACE, 1>> }

\* as executeQueryGuard, testing the value without trimming it
executeQueryGuard_NoTrim(value) ==
    IF value = <<>>
    THEN [fetch |-> FALSE, toasts |-> {"Please enter a query"}]
    ELSE [fetch |-> TRUE, toasts |-> {}]

\* executeQuery up to its early return: query = value.trim(); if (!query) ...
executeQueryGuard(value) ==
    IF trim(value) = <<>>
    THEN [fetch |-> FALSE, toasts |-> {"Please enter a query"}]
    ELSE [fetch |-> TRUE, toasts |-> {}]

\* showTraversal up to its early return: if (!selectedNodeId) ...
showTraversalGuard(selected) ==
    IF selected = NULL
    THEN [fetch |-> FALSE, toasts |-> {"Please select a node first"}]
    ELSE [fetch |-> TRUE, toasts |-> {}]

\* The user edits #query-input
TypeQuery ==
    /\ \E v \in QueryTexts \ {queryInput} : queryInput' = v
    /\ UNCHANGED <<queriesInFlight, displayedQuery, pressed>>
    /\ UNCHANGED graphVars
    /\ toasts' = {}
    /\ UNCHANGED <<searchVars, running, rendererVars, uiVars>>

\* btn-execute-query: executeQuery up to its return or to its fetch
ExecuteQueryPressed ==
    /\ pressed.query + pressed.traversal < MaxPresses
    /\ pressed' = [pressed EXCEPT !.query = @ + 1]
    /\ toasts' = executeQueryGuard(queryInput).toasts
    /\ IF executeQueryGuard(queryInput).fetch
       THEN /\ InFlight < MaxPending
            /\ requestsIssued < MaxRequests
            /\ requestsIssued' = requestsIssued + 1
            /\ pendingQueries' = pendingQueries + 1
            /\ queriesInFlight' = queriesInFlight \cup {requestsIssued + 1}
       ELSE UNCHANGED <<requestsIssued, pendingQueries, queriesInFlight>>
    /\ UNCHANGED <<displayedQuery, queryInput>>
    /\ UNCHANGED <<loadPhase, nodesDataset, edgesDataset, highlightedNodes,
                   highlightedEdges, selectedNodeId, enabledTiers, uuidCount,
                   pendingTraversals, last, filterChanges>>
    /\ UNCHANGED <<searchVars, running, rendererVars, uiVars>>

\* btn-upstream / btn-downstream: showTraversal up to its return or to the
\* fetch of fetchTraversal
ShowTraversalPressed ==
    /\ pressed.query + pressed.traversal < MaxPresses
    /\ pressed' = [pressed EXCEPT !.traversal = @ + 1]
    /\ toasts' = showTraversalGuard(selectedNodeId).toasts
    /\ IF showTraversalGuard(selectedNodeId).fetch
       THEN /\ InFlight < MaxPending
            /\ requestsIssued < MaxRequests
            /\ requestsIssued' = requestsIssued + 1
            /\ \E dir \in Directions :
                  pendingTraversals' = pendingTraversals
                      \cup {[node |-> selectedNodeId, dir |-> dir]}
       ELSE UNCHANGED <<requestsIssued, pendingTraversals>>
    /\ UNCHANGED <<queriesInFlight, displayedQuery, queryInput>>
    /\ UNCHANGED <<loadPhase, nodesDataset, edgesDataset, highlightedNodes,
                   highlightedEdges, selectedNodeId, enabledTiers, uuidCount,
                   pendingQueries, last, filterChanges>>
    /\ UNCHANGED <<searchVars, running, rendererVars, uiVars>>

GuardNext ==
    \/ TypeQuery
    \/ ExecuteQueryPressed
    \/ ShowTraversalPressed
    \/ SelectNode
    \/ DeselectNode
    \/ QueryResponse
    \/ QueryFails
    \/ TraversalResponse
    \/ TraversalFails

GuardSpec == OverlapInit /\ [][GuardNext]_vars

\* The export request eventually settles, and the renderer eventually emits
\* 'stabilizationIterationsDone' for a layout it has started
LoadSettles == LoadSucceeds \/ LoadFails \/ InitializeNetworkFails

LoadLiveSpec == LoadSpec /\ WF_vars(LoadSettles) /\ WF_vars(StabilizationDone)

\* Time passes while a timer is pending, and the event loop runs a due timer
SearchLiveSpec == SearchSpec /\ WF_vars(Tick) /\ WF_vars(TimerFires)

-----------------------------------------------------------------------------
(* Properties *)

Nodes == IF nodesDataset = None THEN <<>> ELSE Val(nodesDataset)
Edges == IF edgesDataset = None THEN <<>> ELSE Val(edgesDataset)

\* The ids of the nodes whose label equals, ignoring case, a label of the path
PathIds(nd, path) ==
    IF path = None \/ Val(path) = <<>> THEN {}
    ELSE {n \in DOMAIN nd :
            /\ nd[n].label # NoLabel
            /\ \E i \in DOMAIN Split(Val(path)) :
                  toLowerCase(nd[n].label) = toLowerCase(Split(Val(path))[i])}

\* A node drawn with its tier colour and its tier size
AtBaseline(item) ==
    /\ item.color = (IF item.data = None THEN item.originalColor
                     ELSE getNodeColor(Val(item.data)))
    /\ item.size = getNodeSize(IF item.data = None THEN EmptyObject ELSE Val(item.data))

\* A step that completes highlightQueryPath / showTraversal
QueryStep == pendingQueries' < pendingQueries /\ last'.op = "highlightQueryPath"
TraversalStep ==
    /\ Cardinality(pendingTraversals') < Cardinality(pendingTraversals)
    /\ last'.op = "showTraversal"

C2_ExactlyResultNodes ==
    (last.op = "highlightQueryPath" /\ nodesDataset # None)
        => highlightedNodes = Ids(last.nodes)

\* C2 amended: after highlightQueryPath(result) on a loaded graph the
\* highlighted nodes are exactly the target, upstream and downstream nodes
\* together with the nodes whose label is named by the path string.
C2_ResultAndPathNodes ==
    (last.op = "highlightQueryPath" /\ nodesDataset # None)
        => highlightedNodes = Ids(last.nodes) \cup PathIds(Nodes, last.path)

\* a query has completed whose result has a target and a downstream node and
\* whose path names a node outside the result
C2_Witness ==
    /\ last.op = "highlightQueryPath"
    /\ nodesDataset # None
    /\ Cardinality(Ids(last.nodes)) >= 2
    /\ PathIds(Nodes, last.path) \ Ids(last.nodes) # {}
    /\ highlightedNodes = Ids(last.nodes) \cup PathIds(Nodes, last.path)

\* C3: every highlighted edge has both its endpoints highlighted.
C3_EdgeEndpointsHighlighted ==
    \A e \in highlightedEdges :
        e \in DOMAIN Edges
            => (Edges[e].from \in highlightedNodes /\ Edges[e].to \in highlightedNodes)

\* C4 as stated: after highlightQueryPath every dataset edge between two
\* highlighted nodes is highlighted, nodes highlighted through the path
\* string included.
C4_AllEdgesAmongHighlighted ==
    last.op = "highlightQueryPath"
        => \A e \in DOMAIN Edges :
              (Edges[e].from \in highlightedNodes /\ Edges[e].to \in highlightedNodes)
                  => e \in highlightedEdges

\* C4 amended: after highlightQueryPath every dataset edge between two of the
\* result's target, upstream and downstream nodes is highlighted and drawn in
\* the highlight colour.
C4_EdgesAmongResultNodes ==
    last.op = "highlightQueryPath"
        => \A e \in DOMAIN Edges :
              (Edges[e].from \in Ids(last.nodes) /\ Edges[e].to \in Ids(last.nodes))
                  => (e \in highlightedEdges /\ Edges[e].color = HighlightEdgeColor)

\* a query has completed with target B and upstream A on the graph A -> B:
\* nodes A and B and the edge A -> B are highlighted
C4_Witness ==
    /\ last.op = "highlightQueryPath"
    /\ Ids(last.nodes) = {"A", "B"}
    /\ highlightedNodes = {"A", "B"}
    /\ \E e \in highlightedEdges : Edges[e].from = "A" /\ Edges[e].to = "B"

\* An upstream traversal completes on the selected node right after a
\* downstream traversal of the same node, nothing in between
UpstreamAfterDownstream ==
    /\ TraversalStep
    /\ last.op = "showTraversal"
    /\ last.req = [node |-> selectedNodeId, dir |-> "downstream"]
    /\ last'.req = [node |-> selectedNodeId, dir |-> "upstream"]
    /\ selectedNodeId \in highlightedNodes

C6_OneEdgePerPair ==
    \A e1, e2 \in DOMAIN Edges :
        (Edges[e1].from = Edges[e2].from /\ Edges[e1].to = Edges[e2].to) => e1 = e2

\* The canonical fields of a dataset node
Canonical(item) ==
    [data |-> item.data, label |-> item.label, tier |-> item.tier,
     type |-> item.type, originalColor |-> item.originalColor]

\* C7: no step changes the data, label, tier, type or originalColor of a node
\* that is in the dataset, nor removes the node.
C7_CanonicalFrame ==
    [][\A n \in DOMAIN Nodes :
          /\ nodesDataset' # None
          /\ n \in DOMAIN Val(nodesDataset')
          /\ Canonical(Val(nodesDataset')[n]) = Canonical(Nodes[n])]_vars

\* a response carried for the loaded node A a record that differs from the
\* one A was loaded with, and A kept the loaded record
C7_Witness ==
    /\ last.op \in {"highlightQueryPath", "showTraversal"}
    /\ recA2 \in last.nodes
    /\ "A" \in DOMAIN Nodes
    /\ "A" \in highlightedNodes
    /\ Nodes["A"].data = Some(recA)

\* C8: after a response is applied to a loaded graph, every node it references
\* is in the node dataset and highlighted.
C8_ReferencedNodesInserted ==
    (loadPhase = "done" /\ last.op \in {"highlightQueryPath", "showTraversal"})
        => \A n \in Ids(last.nodes) : n \in DOMAIN Nodes /\ n \in highlightedNodes

\* C9: every highlighted id is the id of a node of the dataset.
C9_HighlightedNodesExist ==
    highlightedNodes \subseteq DOMAIN Nodes

\* The colour, size and font of a dataset node
Visual(item) == [color |-> item.color, size |-> item.size, font |-> item.font]

\* C10: for every node of the dataset that is not highlighted, highlighting it
\* once or twice and then un-highlighting it restores its colour, size and font
\* and leaves it out of highlightedNodes.
C10_RoundTrip ==
    \A n \in DOMAIN Nodes \ highlightedNodes :
        LET once == highlightNode(Current, n, TRUE)
            twice == highlightNode(once, n, TRUE)
            back1 == highlightNode(once, n, FALSE)
            back2 == highlightNode(twice, n, FALSE)
        IN  /\ n \notin back1.hn /\ n \notin back2.hn
            /\ Visual(Val(back1.nd)[n]) = Visual(Nodes[n])
            /\ Visual(Val(back2.nd)[n]) = Visual(Nodes[n])

\* How an edge is drawn when it is loaded
BaseEdgeVisual ==
    [color |-> EDGE_COLOR, highlight |-> HIGHLIGHT_COLOR, opacity |-> 6, width |-> 1]

C12_VisibleIffEnabledOrNoTier ==
    [][enabledTiers' # enabledTiers =>
         LET nd == IF nodesDataset' = None THEN <<>> ELSE Val(nodesDataset')
         IN  \A n \in DOMAIN nd :
                 (nd[n].hidden = Some(FALSE))
                     <=> (nd[n].tier = None \/ Val(nd[n].tier) \in enabledTiers')]_vars

\* C13: a change of the enabled tiers leaves highlightedNodes, highlightedEdges,
\* the edges and every node's colour, size and font as they were.
C13_FilterKeepsHighlight ==
    [][enabledTiers' # enabledTiers =>
         /\ highlightedNodes' = highlightedNodes
         /\ highlightedEdges' = highlightedEdges
         /\ edgesDataset' = edgesDataset
         /\ LET nd == IF nodesDataset' = None THEN <<>> ELSE Val(nodesDataset')
            IN  /\ DOMAIN nd = DOMAIN Nodes
                /\ \A n \in DOMAIN Nodes : Visual(nd[n]) = Visual(Nodes[n])]_vars

\* only tier 1 is enabled: B is hidden and A is visible, and A, B and the
\* edge A -> B are highlighted
C13_Witness ==
    /\ enabledTiers = {1}
    /\ highlightedNodes = {"A", "B"}
    /\ \E e \in highlightedEdges : Edges[e].from = "A" /\ Edges[e].to = "B"
    /\ Nodes["B"].hidden = Some(TRUE)
    /\ Nodes["A"].hidden = Some(FALSE)
    /\ Nodes["B"].color = HIGHLIGHT_COLOR

\* C14: for every node n of the dataset and every tier set T, highlighting n
\* and then filtering by T gives n the same hidden flag, highlighted flag,
\* colour, size and font as filtering by T and then highlighting n.
C14_FilterCommutesWithHighlight ==
    \A n \in DOMAIN Nodes : \A T \in SUBSET TierBoxes :
        LET h == highlightNode(Current, n, TRUE)
            hf == filterGraph(Val(h.nd), T)
            f == [Current EXCEPT !.nd = Some(filterGraph(Nodes, T))]
            fh == highlightNode(f, n, TRUE)
        IN  /\ hf[n] = Val(fh.nd)[n]
            /\ (n \in h.hn) = (n \in fh.hn)
            /\ DOMAIN hf = DOMAIN Val(fh.nd)

\* node A is highlighted and hidden at the same time
C14_Witness ==
    /\ "A" \in highlightedNodes
    /\ "A" \in DOMAIN Nodes
    /\ Nodes["A"].hidden = Some(TRUE)
    /\ Nodes["A"].color = HIGHLIGHT_COLOR
    /\ 1 \notin enabledTiers

\* C15: when the debounced search runs on a value whose trimmed text is
\* shorter than two characters, no request is issued and the displayed list
\* is empty afterwards.
C15_ShortQueryNoCall ==
    [][(invocations' = invocations + 1
        /\ Len(trim(searchInput)) < MinQueryLength)
       => /\ searchCalls' = searchCalls
          /\ searchPending' = searchPending
          /\ searchResults'.items = <<>>]_vars

\* " a " was searched after an earlier search had been sent: nothing is
\* pending, no call was added for it, and the list is empty
C15_Witness ==
    /\ searchInput = <<SPACE, 1, SPACE>>
    /\ timers = {}
    /\ searchCalls = 1
    /\ invocations = 2
    /\ searchPending = {}
    /\ searchResults = [seq |-> 0, via |-> "none", items |-> <<>>]

\* C16: every input event cancels the pending invocation and schedules a new
\* one Wait ticks ahead without invoking searchNodes; at most one invocation
\* is pending; searchNodes is invoked only by the timer of the latest input
\* event, once, Wait ticks after that event; so every input event ends
\* cancelled, pending or invoked, and a burst has exactly one invocation,
\* which does happen: a pending invocation leads to no pending invocation.
C16_Debounce ==
    /\ (timers # {}) ~> (timers = {})
    /\ [][/\ Cardinality(timers') <= 1
          /\ invocations' + cancelled' + Cardinality(timers') = timersCreated'
          /\ timersCreated' # timersCreated
               => /\ invocations' = invocations
                  /\ cancelled' = cancelled + Cardinality(timers)
                  /\ timers' = {[id |-> timersCreated', left |-> Wait]}
          /\ invocations' # invocations
               => /\ invocations' = invocations + 1
                  /\ timers = {[id |-> timersCreated, left |-> 0]}
                  /\ timers' = {}]_vars

\* three input events less than Wait ticks apart were followed by one
\* invocation
C16_Witness ==
    /\ timersCreated = 3
    /\ cancelled = 2
    /\ invocations = 1
    /\ timers = {}

\* C17: a search response (or failure) that belongs to an older request than
\* the one whose results are displayed leaves the displayed results alone.
C17_StaleResponseDropped ==
    [][\A req \in searchPending \ searchPending' :
           req.seq < searchResults.seq => searchResults' = searchResults]_vars

\* C18: when a search request fails, the displayed results are the loaded
\* nodes, in the order of their loading, whose id or label contains the
\* query in lower case, cut to the first SearchLimit; never more than that.
C18_FallbackMatchesLoadedNodes ==
    [][\A req \in searchPending \ searchPending' :
           searchResults'.via = "local" =>
               LET FullLabel(id) == IF Nodes[id].data = None THEN Nodes[id].label
                                    ELSE Val(Nodes[id].data).label
                   Matches(id) ==
                       \/ includes(toLowerCase(IdChars(id)), req.query)
                       \/ /\ FullLabel(id) # NoLabel
                          /\ includes(toLowerCase(FullLabel(id)), req.query)
                   found == IF nodesDataset = None THEN <<>>
                            ELSE SelectSeq(SearchOrder, Matches)
               IN  /\ Len(searchResults'.items) <= SearchLimit
                   /\ searchResults'.items =
                          SubSeq(found, 1, IF Len(found) < SearchLimit
                                           THEN Len(found) ELSE SearchLimit)]_vars

\* C19: an identifier that names, by id or by label, no node that is loaded
\* and not hidden by the tier filter resolves to no node in
\* searchAndFocusNode, whose action then shows the "not found in current
\* view" warning and leaves the selection alone.
C19_NotInViewIsReported ==
    \A identifier \in FocusIdentifiers :
        LET InView(n) == Nodes[n].hidden # Some(TRUE)
            Named(n) == \/ n = identifier
                        \/ /\ Nodes[n].label # NoLabel
                           /\ toLowerCase(Nodes[n].label) = toLowerCase(IdChars(identifier))
        IN  (~ \E n \in DOMAIN Nodes : InView(n) /\ Named(n))
                => searchAndFocusNode(nodesDataset, identifier) = NULL

\* C20: a step that ends a query or traversal request without a result (the
\* fetch failed or the status was not ok) leaves the node dataset, the edge
\* dataset, highlightedNodes and highlightedEdges as they were and shows a
\* notification.
C20_FailureKeepsStateAndNotifies ==
    [][(/\ \/ pendingQueries' < pendingQueries
           \/ pendingTraversals' # pendingTraversals /\ pendingTraversals' \subseteq pendingTraversals
        /\ last'.op = "other")
       => /\ nodesDataset' = nodesDataset
          /\ edgesDataset' = edgesDataset
          /\ highlightedNodes' = highlightedNodes
          /\ highlightedEdges' = highlightedEdges
          /\ toasts' # {}]_vars

ExportHadNodes ==
    loadPhase = "norenderer" \/ (loadPhase = "done" /\ nodesDataset # None)

\* C22 as stated: after an export with at least one node the loading
\* indicator is shown in every state in which the layout has not completed,
\* and the whole view is fitted automatically only by the step that completes
\* the layout.
C22_LoadingUntilStabilized ==
    [][/\ (ExportHadNodes' /\ stabilization' # "done") => loading'
       /\ autoFits' # autoFits
            => (stabilization = "running" /\ stabilization' = "done")]_vars

\* C22 amended: while the layout of a created network is running the loading
\* indicator is shown; after an export with nodes only two kinds of step hide
\* it: the completion of the layout, and an initializeNetwork that ends early
\* for want of the vis library or on an exception, which shows an error
\* notification; the whole view is fitted automatically only by the step that
\* completes the layout, which also hides the indicator.
C22_LoadingUntilStabilizedOrInitError ==
    [][/\ stabilization' = "running" => loading'
       /\ (ExportHadNodes' /\ loading /\ ~loading')
            => \/ stabilization = "running" /\ stabilization' = "done"
               \/ /\ loadPhase = "fetching" /\ loadPhase' = "norenderer"
                  /\ toasts' \cap {"Visualization library failed to load",
                                   "Failed to initialize graph"} # {}
       /\ autoFits' # autoFits
            => /\ stabilization = "running" /\ stabilization' = "done"
               /\ ~loading']_vars

\* the layout has completed after a query response was applied and a tier
\* box was changed: the indicator is hidden and the view was fitted once
C22_Witness ==
    /\ stabilization = "done"
    /\ ~loading
    /\ autoFits = 1
    /\ highlightedNodes # {}
    /\ filterChanges > 0
    /\ toasts = {}

\* C23: a completion (response or failure) of a query that was issued before
\* the query whose response was applied last changes neither the datasets nor
\* the highlight, so that what is shown stays that of the later query.
C23_StaleQueryDropped ==
    [][\A q \in queriesInFlight \ queriesInFlight' :
           q < displayedQuery
               => /\ nodesDataset' = nodesDataset
                  /\ edgesDataset' = edgesDataset
                  /\ highlightedNodes' = highlightedNodes
                  /\ highlightedEdges' = highlightedEdges]_vars

C25_HighlightQueryPathIdempotent ==
    [][QueryStep =>
         \A result \in QueryResults :
             (ResultNodes(result) = last'.nodes /\ result.path = last'.path
              /\ highlightQueryPath(Current, result) = Current')
                 => highlightQueryPath(Current', result) = Current']_vars

\* a query response has been applied that added node C to the loaded graph
\* and highlighted an edge, and applying its result again changes nothing
C25_Witness ==
    /\ last.op = "highlightQueryPath"
    /\ "C" \in highlightedNodes
    /\ "C" \in DOMAIN Nodes
    /\ highlightedEdges # {}
    /\ \E result \in QueryResults :
          /\ ResultNodes(result) = last.nodes
          /\ result.path = last.path
          /\ highlightQueryPath(Current, result) = Current

\* C26: when a traversal response is applied while the node it was requested
\* for is the selected node, that node and every node of the response are
\* highlighted and in the node dataset, and the edge id of every edge of the
\* response is highlighted and in the edge dataset.
C26_TraversalHighlightsAll ==
    [][(TraversalStep /\ last'.req.node = selectedNodeId) =>
         LET nd == IF nodesDataset' = None THEN <<>> ELSE Val(nodesDataset')
             ed == IF edgesDataset' = None THEN <<>> ELSE Val(edgesDataset')
             ns == {selectedNodeId} \cup Ids(last'.nodes)
             es == {DynEdgeId(e.source, e.target) : e \in last'.edges}
         IN  /\ ns \subseteq highlightedNodes'
             /\ ns \subseteq DOMAIN nd
             /\ es \subseteq highlightedEdges'
             /\ es \subseteq DOMAIN ed]_vars

\* a downstream traversal of the selected node B has been applied: it
\* carried node C, which the graph did not have, and the edge B -> C
C26_Witness ==
    /\ last.op = "showTraversal"
    /\ last.req = [node |-> "B", dir |-> "downstream"]
    /\ selectedNodeId = "B"
    /\ Ids(last.nodes) = {"C"}
    /\ highlightedNodes = {"B", "C"}
    /\ highlightedEdges = {DynEdgeId("B", "C")}
    /\ DynEdgeId("B", "C") \in DOMAIN Edges
    /\ "C" \in DOMAIN Nodes

\* C27: a step that ends a traversal request without a result (the fetch
\* failed or the status was not ok) shows a notification.
C27_TraversalFailureNotified ==
    [][(pendingTraversals' # pendingTraversals
        /\ pendingTraversals' \subseteq pendingTraversals
        /\ last'.op # "showTraversal")
       => toasts' # {}]_vars

\* C28: in every state in which the node dataset exists, every node whose
\* tier is not an enabled tier is hidden.
C28_VisibilityDerived ==
    \A n \in DOMAIN Nodes :
        (Nodes[n].tier # None /\ Val(Nodes[n].tier) \notin enabledTiers)
            => Nodes[n].hidden = Some(TRUE)

\* C29: a step that applies a traversal response highlights as origin the
\* node the request was sent for, highlights no other node than that one and
\* the nodes of the response, highlights no null id and creates no node
\* under a generated id.
C29_TraversalAppliedToRequestedNode ==
    [][TraversalStep =>
         /\ last'.req.node \in highlightedNodes'
         /\ highlightedNodes' \subseteq {last'.req.node} \cup Ids(last'.nodes)
         /\ NULL \notin highlightedNodes'
         /\ uuidCount' = uuidCount]_vars

\* C30: after a step that applies a query result with a path string, every
\* node of the dataset whose full label (the label of the record it was built
\* from) equals one of the path's labels, ignoring case, is highlighted.
C30_PathLabelsHighlighted ==
    [][(QueryStep /\ last'.path # None) =>
         LET labels == Split(Val(last'.path))
             nd == IF nodesDataset' = None THEN <<>> ELSE Val(nodesDataset')
         IN  \A n \in DOMAIN nd :
                 (/\ nd[n].data # None
                  /\ Val(nd[n].data).label # NoLabel
                  /\ \E i \in 1..Len(labels) :
                         toLowerCase(Val(nd[n].data).label) = toLowerCase(labels[i]))
                     => n \in highlightedNodes']_vars

\* C31: a deferred fit is requested only for a non-empty highlight set, and
\* when its timer fires the fit is performed over exactly the nodes that the
\* requesting call had highlighted.
C31_FitOverHighlightedByCall ==
    [][/\ \A t \in fitTimers' : t.called # {}
       /\ \A t \in fitTimers \ fitTimers' :
             fitted'.timer = t.id /\ fitted'.nodes = t.called]_vars

\* C32: once the initial load is over, no step removes a node or an edge
\* from the datasets, and a dataset that exists is never dropped.
C32_DatasetsOnlyGrow ==
    [][loadPhase # "fetching" =>
         /\ (nodesDataset # None => nodesDataset' # None)
         /\ (edgesDataset # None => edgesDataset' # None)
         /\ DOMAIN Nodes \subseteq DOMAIN Nodes'
         /\ DOMAIN Edges \subseteq DOMAIN Edges']_vars

\* A query added node C and a traversal added the edge B -> C, the highlights
\* were cleared afterwards, and both are still in the datasets
C32_Witness ==
    /\ last.op = "clearHighlights"
    /\ {"A", "B", "C"} \subseteq DOMAIN Nodes
    /\ DynEdgeId("B", "C") \in DOMAIN Edges
    /\ BulkEdgeId(0) \in DOMAIN Edges
    /\ highlightedNodes = {}
    /\ requestsIssued = 2

\* The dynamic edges of the dataset `ed` that join `source` to `target`
DynamicEdges(ed, source, target) ==
    {x \in DOMAIN ed : x[1] = "dynamic-edge" /\ ed[x].from = source /\ ed[x].to = target}

\* C33: displaying a traversal response a second time adds no edge: the edge
\* dataset is the one the first display left, with one dynamic edge for every
\* (source, target) edge of the response, highlighted again.
C33_DynamicEdgeInsertionIdempotent ==
    [][TraversalStep =>
         \A result \in TraversalResults(last'.req.node, last'.req.dir) :
             (/\ Range(result.nodes) = last'.nodes
              /\ Range(result.edges) = last'.edges
              /\ showTraversal(Current, selectedNodeId, result) = Current')
             => LET again == showTraversal(Current', selectedNodeId', result)
                IN  /\ again.ed = edgesDataset'
                    /\ again.he = highlightedEdges'
                    /\ \A e \in last'.edges :
                          /\ Cardinality(DynamicEdges(Val(again.ed), e.source, e.target)) = 1
                          /\ DynEdgeId(e.source, e.target) \in again.he]_vars

\* The response of the downstream traversal of B, with the edge B -> C, was
\* displayed twice in a row
C33_Witness ==
    /\ last.op = "showTraversal"
    /\ last.prev = last.req
    /\ last.req = [node |-> "B", dir |-> "downstream"]
    /\ last.edges = {Edge("B", "C")}
    /\ requestsIssued = 2
    /\ DynamicEdges(Edges, "B", "C") = {DynEdgeId("B", "C")}
    /\ highlightedEdges = {DynEdgeId("B", "C")}

\* C34: among the drawn nodes that are not highlighted, every CONCEPT node is
\* strictly larger than every FIELD node of a tier 0..5, the size of a FIELD
\* node never increases with its tier, and no FIELD node is smaller than the
\* floor.
C34_NodeSizeOrder ==
    \A n, m \in DOMAIN Nodes \ highlightedNodes :
        /\ (Nodes[n].type = "CONCEPT" /\ Nodes[m].type = "FIELD")
               => Nodes[n].size > Nodes[m].size
        /\ (Nodes[n].type = "FIELD" /\ Nodes[m].type = "FIELD"
              /\ Val(Nodes[n].tier) <= Val(Nodes[m].tier))
               => Nodes[n].size >= Nodes[m].size
        /\ Nodes[n].type = "FIELD" => Nodes[n].size >= SizeFloor


\* C35: once searchNodes has run for the present value of the search box, has
\* found it shorter than MinQueryLength and has emptied the result list, the
\* list stays empty as long as that value stays, whatever response arrives.
C35_ClearedResultsStayEmpty ==
    [][(/\ timersCreated > 0
        /\ timers = {}
        /\ QueryTooShort(SearchQuery(searchInput))
        /\ searchResults.items = <<>>
        /\ searchInput' = searchInput)
       => searchResults'.items = <<>>]_vars

\* C36: selectedNodeId is the node selected in the renderer, and is null
\* exactly when no node is selected there.
C36_SelectionAgreesWithRenderer == selectedNodeId = networkSelection

\* C37: while the pointer hovers a node and the popup shown for it is
\* displayed, every step that is not a blurNode or a dragStart (the steps
\* that call hideNodePopup and set a timer) leaves the popup displayed.
C37_PopupStaysWhileHovering ==
    [][(/\ hovered # NULL
        /\ popup = [display |-> TRUE, opacity |-> 1, node |-> hovered]
        /\ hideTimers' <= hideTimers)
       => popup' = popup]_vars

\* C38: on every path of the initial load the loading indicator is
\* eventually hidden.
C38_LoadingEventuallyHidden == <>(~loading)

\* A step that calls no endpoint, shows the warning `message` and leaves the
\* datasets and both highlight sets as they were
WarnsAndReturns(message) ==
    /\ toasts' = {message}
    /\ requestsIssued' = requestsIssued
    /\ pendingQueries' = pendingQueries
    /\ queriesInFlight' = queriesInFlight
    /\ pendingTraversals' = pendingTraversals
    /\ nodesDataset' = nodesDataset
    /\ edgesDataset' = edgesDataset
    /\ highlightedNodes' = highlightedNodes
    /\ highlightedEdges' = highlightedEdges

\* C39: a press of a traversal button with no node selected, and a press of
\* the query button with a query made of blanks only, issue no request, show
\* a warning and leave the datasets and both highlight sets unchanged.
C39_GuardsWarnAndReturn ==
    [][/\ (pressed'.traversal > pressed.traversal /\ selectedNodeId = NULL)
            => WarnsAndReturns("Please select a node first")
       /\ (pressed'.query > pressed.query
             /\ \A i \in 1..Len(queryInput) : queryInput[i] = SPACE)
            => WarnsAndReturns("Please enter a query")]_vars

\* A query has highlighted nodes; then the query button was pressed on a
\* query of two blanks and, last, a traversal button with no node selected
C39_Witness ==
    /\ pressed = [query |-> 2, traversal |-> 1]
    /\ requestsIssued = 1
    /\ queryInput = <<SPACE, SPACE>>
    /\ selectedNodeId = NULL
    /\ highlightedNodes # {}
    /\ pendingQueries = 0
    /\ toasts = {"Please select a node first"}

====
